---- MODULE Spec2Model ----
(***************************************************************************)
(* teeny-orchestrator: the agent loop (pkg/loop), the session store        *)
(* (pkg/session), the context builder's message assembly (pkg/context)     *)
(* and the tool registry's dispatch (pkg/toolreg).                         *)
(*                                                                         *)
(* Text is modelled as a sequence of string chunks: the empty string is    *)
(* <<>>, concatenation is \o.  A tool-call name is a text whose chunks are *)
(* its dot-separated parts and the "." separators themselves.              *)
(***************************************************************************)
EXTENDS Integers, Sequences, FiniteSets, TLC

VARIABLES
    cfgMaxIterations, \* Config.MaxIterations of the AgentLoop
    sessions,         \* Manager.sessions: key -> [Key, Messages, Summary]
    disk,             \* the session directory: file name -> file content
    pc,               \* where Run is: idle, chat, proc, done, failed
    messages,         \* Run's local message list
    i,                \* Run's loop counter
    resp,             \* the response of the current iteration
    tcIdx,            \* index in resp.ToolCalls of the call being executed
    result,           \* the text Run returned
    err,              \* the error Run returned (Nil when none)
    calls,            \* the ChatRequests this Run passed to the provider
    resps,            \* the provider's answers to them, in order
    executed,         \* the Execute calls of this Run, in order of return
    inflight,         \* operations started by this Run and not yet returned
    iterDone,         \* messages Run appended in iterations it completed
    crashed,          \* the process crashed during the last Run
    emitted,          \* tool calls the provider has emitted so far
    runs,             \* Runs started so far
    cancel,           \* the ctx passed to Run: whether and when it was cancelled
    capture,          \* Config.AutoCapture and what the capture binary does
    captured,         \* the capture processes this Run has run
    registry,         \* Registry.timeout, as configured and as NewRegistry set it
    cmdDef,           \* the CommandDef of command "run" of tool "echo"
    toolCall,         \* the ToolCall passed to Execute
    execPc,           \* where Execute is: idle, running
    proc,             \* the subprocess of the Execute in progress
    now,              \* the time, in seconds
    execLog,          \* the Execute calls that returned, in order
    toolDefs,         \* what the last call of ToToolDefs returned
    adapters,         \* the Anthropic and the OpenAI adapter: apiKey, model
    chatReq,          \* the ChatRequest passed to Chat
    chatPc,           \* where Chat is: idle, http
    chatOn,           \* the adapter whose Chat is in progress
    wire,             \* the HTTP requests the adapters have performed
    chatLog,          \* the Chat calls that returned, in order
    hist,             \* the messages a caller got from GetHistory
    savers,           \* the Save calls in progress, one per calling goroutine
    held,             \* the sessions the Managers have held in memory
    nextTmp,          \* temporary files created so far
    storeOps,         \* AddMessage and SetSummary calls made on their own
    lastKey,          \* the key the last call on the Manager was made with
    tools,            \* Registry.tools of a registry filled by Register
    advertised,       \* what ToToolDefs returned for it, per tool and command
    lookups,          \* the Execute calls made with advertised names
    cronExpr,         \* the expression passed to ParseCron
    cronAt,           \* the time passed to Matches
    cronOut,          \* what ParseCron and Matches returned
    jobs,             \* Scheduler.jobs
    running,          \* Scheduler.running
    schedCancel,      \* Scheduler.cancel: 0 for nil, else the loop it cancels
    parentDone,       \* the ctx passed to Start is cancelled
    loops,            \* the loop goroutines Start has started
    clock,            \* the time, in ticks of the scheduler's ticker
    firings           \* the runJob goroutines checkJobs has started

\* The state of the tool registry when Execute is called on its own.
toolVars == <<registry, cmdDef, toolCall, execPc, proc, now, execLog,
              toolDefs>>

\* The state of the provider adapters when Chat is called on its own.
adapterVars == <<adapters, chatReq, chatPc, chatOn, wire, chatLog>>

\* The state of the callers of the session Manager when it is called on
\* its own.
storeVars == <<hist, savers, held, nextTmp, storeOps, lastKey>>

\* A registry that Register fills, and the calls made on it.
manifestVars == <<tools, advertised, lookups>>

\* A call of ParseCron and Matches.
cronVars == <<cronExpr, cronAt, cronOut>>

\* The Scheduler, its goroutines and the clock.
schedVars == <<jobs, running, schedCancel, parentDone, loops, clock, firings>>

\* The state of the daemon's parts when they are used on their own.
daemonVars == <<manifestVars, cronVars, schedVars>>

\* The state of the components that are not part of a Run.
others == <<toolVars, adapterVars, storeVars, daemonVars>>

\* The state of a Run, of its AgentLoop and of its session Manager.
loopVars == <<cfgMaxIterations, sessions, disk, pc, messages, i, resp, tcIdx,
              result, err, calls, resps, executed, inflight, iterDone,
              crashed, emitted, runs, cancel, capture, captured>>

\* The state of a Run without its session Manager and its directory.
runVars == <<cfgMaxIterations, pc, messages, i, resp, tcIdx, result, err,
             calls, resps, executed, inflight, iterDone, crashed, emitted,
             runs, cancel, capture, captured>>

vars == <<loopVars, others>>

-----------------------------------------------------------------------------
(* Bounds of the model *)

MaxIter == 3        \* largest configured MaxIterations
MaxCalls == 2       \* most tool calls in one provider response
MaxToolCalls == 3   \* most tool calls the provider emits during one Run
MaxSessionToolCalls == 2 \* the same, over the Runs of SpecSessions
MaxRuns == 2        \* most Runs started over a behaviour
MaxKeep == 2        \* largest keepLast passed to SetSummary
MaxRunToolCalls == 2 \* most tool calls during a Run of NextRun
MaxExecs == 2       \* most Execute calls of one tool call in a row
MaxTimeout == 2     \* largest timeout a registry is configured with
MaxChats == 2       \* most Chat calls made on the adapters in a row
MaxStoreOps == 2    \* most AddMessage and SetSummary calls on a Manager
MaxSaves == 2       \* most Save calls that create a temporary file
MaxLookups == 2     \* most Execute calls made with advertised names
MaxTicks == 2       \* most ticks of the scheduler's ticker over a behaviour
MaxStarts == 2      \* most Start calls that start a loop

-----------------------------------------------------------------------------
(* Text *)

Empty == <<>>
Nil == <<>>

FallbackText == <<"I've completed processing but have no response to give.">>
MaxIterationsText == <<"[max iterations reached]">>

\* fmt.Sprintf("Error: %s", err)
ErrorResult(e) == <<"Error: ">> \o e

\* fmt.Errorf("LLM call failed (iteration %d): %w", i+1, err)
RunError(iter, cause) ==
    <<"LLM call failed (iteration ", ToString(iter + 1), "): ">> \o cause

-----------------------------------------------------------------------------
(* provider.Message, provider.ToolCall, provider.ChatRequest/ChatResponse *)

Message(role, content, toolCalls, toolCallID) ==
    [Role |-> role, Content |-> content, ToolCalls |-> toolCalls,
     ToolCallID |-> toolCallID]

ToolCall(id, name, arguments) ==
    [ID |-> id, Name |-> name, Arguments |-> arguments]

ChatResponse(content, toolCalls) ==
    [Content |-> content, ToolCalls |-> toolCalls]

NoResponse == ChatResponse(Empty, <<>>)

-----------------------------------------------------------------------------
(* pkg/toolreg: the registry and Execute *)

\* The registry a Run is constructed with: one tool "echo" with command "run".
RegistryTools ==
    [t \in {<<"echo">>} |->
        [Name |-> t, Binary |-> <<"echo">>,
         Commands |-> [c \in {<<"run">>} |->
                          [Description |-> <<"echoes input">>]]]]

\* Registry.ToToolDefs: one ToolDef per command, named tool + "." + command.
ToToolDefs ==
    UNION {{[Name |-> RegistryTools[t].Name \o <<".">> \o c,
             Description |-> <<"[">> \o RegistryTools[t].Name \o <<"] ">>
                                 \o RegistryTools[t].Commands[c].Description] :
               c \in DOMAIN RegistryTools[t].Commands} :
           t \in DOMAIN RegistryTools}

\* Mutant of ChatRequest: only the system message and the latest two
\* messages of the transcript are sent.
ChatRequestRecent(msgs) ==
    [Messages |-> IF Len(msgs) > 3
                  THEN <<msgs[1]>> \o SubSeq(msgs, Len(msgs) - 1, Len(msgs))
                  ELSE msgs,
     Tools |-> ToToolDefs]

\* Lines 83-86 of loop.go: the request of an iteration.
ChatRequest(msgs) == [Messages |-> msgs, Tools |-> ToToolDefs]

\* strings.SplitN(name, ".", 2)
FirstDot(name) ==
    IF \E k \in DOMAIN name : name[k] = "."
    THEN CHOOSE k \in DOMAIN name :
             name[k] = "." /\ \A j \in 1..(k - 1) : name[j] # "."
    ELSE 0

SplitN2(name) ==
    IF FirstDot(name) = 0 THEN <<name>>
    ELSE <<SubSeq(name, 1, FirstDot(name) - 1),
           SubSeq(name, FirstDot(name) + 1, Len(name))>>

\* JSON text is a sequence of JSON tokens: "{", "}", ":", ",", null, number
\* literals and string literals. The string literals of the model and the
\* text each stands for: a brace inside a string is a chunk of its own.
StringText ==
    [t \in {"\"text\"", "\"content\"", "\"hi\"", "\"a b\"", "\"a{b\""} |->
        CASE t = "\"text\"" -> <<"text">>
          [] t = "\"content\"" -> <<"content">>
          [] t = "\"hi\"" -> <<"hi">>
          [] t = "\"a b\"" -> <<"a", " ", "b">>
          [] t = "\"a{b\"" -> <<"a", "{", "b">>]

\* The number literals of the model and what fmt's %v prints for the
\* float64 each decodes to.
NumberText == [t \in {"1", "1.0"} |-> "1"]

IsStringTok(t) == t \in DOMAIN StringText
IsValueTok(t) == IsStringTok(t) \/ t \in DOMAIN NumberText \/ t = "null"

\* The Go value a JSON value token decodes to in a map[string]any.
JSONValue(t) ==
    IF IsStringTok(t) THEN [type |-> "string", text |-> StringText[t]]
    ELSE IF t \in DOMAIN NumberText
    THEN [type |-> "float64", text |-> <<NumberText[t]>>]
    ELSE [type |-> "nil", text |-> Empty]

\* fmt.Sprintf("%v", val)
Sprintv(val) == IF val.type = "nil" THEN <<"<nil>">> ELSE val.text

\* Whether a is the text of a JSON object with scalar members.
IsJSONObject(a) ==
    /\ Len(a) >= 2
    /\ a[1] = "{"
    /\ a[Len(a)] = "}"
    /\ \/ Len(a) = 2
       \/ /\ Len(a) % 4 = 1
          /\ \A j \in 1..(Len(a) \div 4) :
                 /\ IsStringTok(a[4 * j - 2])
                 /\ a[4 * j - 1] = ":"
                 /\ IsValueTok(a[4 * j])
                 /\ a[4 * j + 1] = IF j = Len(a) \div 4 THEN "}" ELSE ","

NoArgs == [k \in {} |-> 0]

\* json.Unmarshal([]byte(toolCall.Arguments), &args) with args a
\* map[string]any: an object decodes to its members (the last of two
\* members with the same key wins), null leaves the map nil, anything else
\* is an error.
UnmarshalArgs(a) ==
    IF IsJSONObject(a)
    THEN LET n == Len(a) \div 4
             keys == {StringText[a[4 * j - 2]] : j \in 1..n}
             last(k) == CHOOSE j \in 1..n :
                            /\ StringText[a[4 * j - 2]] = k
                            /\ \A m \in (j + 1)..n : StringText[a[4 * m - 2]] # k
         IN [ok |-> TRUE, args |-> [k \in keys |-> JSONValue(a[4 * last(k)])]]
    ELSE IF a = <<"null">> THEN [ok |-> TRUE, args |-> NoArgs]
    ELSE [ok |-> FALSE, args |-> NoArgs]

\* json.Unmarshal([]byte(toolCall.Arguments), &args): whether it succeeds.
ArgumentsDecode(a) == UnmarshalArgs(a).ok

\* What a started subprocess can do.
ProcOutcomes == {"ok", "exit", "timeout"}

\* What exec.CommandContext does when Run's ctx is cancelled: a running
\* subprocess is killed; cmd.Run starts none when ctx is already done.
CancelOutcomes == {"killed", "canceled"}

\* Mutant of ExecuteLocalError: the command is not looked up.
ExecuteLocalErrorSkipsCommand(tc) ==
    LET parts == SplitN2(tc.Name) IN
    IF Len(parts) # 2
    THEN <<"invalid tool name: ">> \o tc.Name \o <<" (expected tool.command)">>
    ELSE IF parts[1] \notin DOMAIN RegistryTools
    THEN <<"unknown tool: ">> \o parts[1]
    ELSE IF ~ArgumentsDecode(tc.Arguments)
    THEN <<"parse tool arguments: invalid character">>
    ELSE Nil

\* The local error Execute returns before starting a subprocess; Nil if none.
ExecuteLocalError(tc) ==
    LET parts == SplitN2(tc.Name) IN
    IF Len(parts) # 2
    THEN <<"invalid tool name: ">> \o tc.Name \o <<" (expected tool.command)">>
    ELSE IF parts[1] \notin DOMAIN RegistryTools
    THEN <<"unknown tool: ">> \o parts[1]
    ELSE IF parts[2] \notin DOMAIN RegistryTools[parts[1]].Commands
    THEN <<"unknown command: ">> \o parts[1] \o <<".">> \o parts[2]
    ELSE IF ~ArgumentsDecode(tc.Arguments)
    THEN <<"parse tool arguments: invalid character">>
    ELSE Nil

\* Registry.Execute: (output, error) for a call whose subprocess, if one
\* is started, ends with outcome o.
Execute(tc, o) ==
    LET parts == SplitN2(tc.Name) IN
    IF ExecuteLocalError(tc) # Nil
    THEN [out |-> Empty, err |-> ExecuteLocalError(tc), started |-> FALSE]
    ELSE IF o = "ok"
    THEN [out |-> <<"stdout">>, err |-> Nil, started |-> TRUE]
    ELSE IF o = "canceled"
    THEN [out |-> Empty,
          err |-> parts[1] \o <<".">> \o parts[2] \o <<" failed: ">>
                    \o <<"context canceled">>,
          started |-> FALSE]
    ELSE [out |-> Empty,
          err |-> parts[1] \o <<".">> \o parts[2] \o <<" failed: ">>
                    \o (IF o = "exit" THEN <<"stderr">>
                        ELSE <<"signal: killed">>),
          started |-> TRUE]

\* strings.ReplaceAll(s, old, new), old not empty
RECURSIVE ReplaceAll(_, _, _)
ReplaceAll(s, old, new) ==
    IF Len(s) < Len(old) THEN s
    ELSE IF SubSeq(s, 1, Len(old)) = old
    THEN new \o ReplaceAll(SubSeq(s, Len(old) + 1, Len(s)), old, new)
    ELSE <<Head(s)>> \o ReplaceAll(Tail(s), old, new)

\* The length of the longest prefix of s without white space.
RECURSIVE FieldLen(_)
FieldLen(s) ==
    IF s = <<>> \/ Head(s) = " " THEN 0 ELSE 1 + FieldLen(Tail(s))

\* strings.Fields(s)
RECURSIVE Fields(_)
Fields(s) ==
    IF s = <<>> THEN <<>>
    ELSE IF Head(s) = " " THEN Fields(Tail(s))
    ELSE <<SubSeq(s, 1, FieldLen(s))>>
             \o Fields(SubSeq(s, FieldLen(s) + 1, Len(s)))

\* strings.Contains(part, c) for a one-character c
Contains1(part, c) == \E k \in DOMAIN part : part[k] = c

\* The orders in which a range over the map args can visit its keys.
MapOrders(args) ==
    {o \in [1..Cardinality(DOMAIN args) -> DOMAIN args] :
        \A a, b \in DOMAIN o : a # b => o[a] # o[b]}

\* Lines 297-300 and 339-342: the name of the stdin parameter.
StdinParamOf(def) ==
    IF def.StdinParam = Empty THEN <<"content">> ELSE def.StdinParam

\* Lines 326-330: the template with the placeholder of each key replaced,
\* the keys visited in order.
RECURSIVE Expand(_, _, _)
Expand(expanded, args, order) ==
    IF order = <<>> THEN expanded
    ELSE Expand(ReplaceAll(expanded, <<"{">> \o Head(order) \o <<"}">>,
                           Sprintv(args[Head(order)])),
                args, Tail(order))

\* Mutant of FlagSkipped: the stdin parameter is skipped even when the
\* command does not read stdin.
FlagSkippedWithoutStdin(def, key) == key = StdinParamOf(def)

\* Lines 344-346: the argument that is not passed as a flag.
FlagSkipped(def, key) == def.Stdin /\ key = StdinParamOf(def)

\* Lines 343-348: "--key", value for each argument, the keys visited in
\* order.
RECURSIVE Flags(_, _, _)
Flags(def, args, order) ==
    IF order = <<>> THEN <<>>
    ELSE (IF FlagSkipped(def, Head(order)) THEN <<>>
          ELSE << <<"--">> \o Head(order), Sprintv(args[Head(order)]) >>)
         \o Flags(def, args, Tail(order))

\* buildCommandArgs, the range over args visiting its keys in order.
buildCommandArgs(def, args, cmdName, order) ==
    <<cmdName>> \o
    (IF def.Args # Empty
     THEN SelectSeq(Fields(Expand(def.Args, args, order)),
                    LAMBDA part : ~Contains1(part, "{"))
     ELSE Flags(def, args, order))

NoStdin == [piped |-> FALSE, text |-> Empty]

\* Lines 296-304: what is piped to the subprocess's standard input.
StdinOf(def, args) ==
    IF def.Stdin /\ StdinParamOf(def) \in DOMAIN args
    THEN [piped |-> TRUE, text |-> Sprintv(args[StdinParamOf(def)])]
    ELSE NoStdin

\* What the binary echo prints for an argument vector.
RECURSIVE Join(_, _)
Join(elems, sep) ==
    IF elems = <<>> THEN <<>>
    ELSE IF Len(elems) = 1 THEN Head(elems)
    ELSE Head(elems) \o sep \o Join(Tail(elems), sep)

EchoOutput(argv) == Join(argv, <<" ">>) \o <<"\n">>

\* NewRegistry: the timeout of a registry configured with timeout.
DefaultTimeout == 30

NewRegistry(timeout) ==
    [configured |-> timeout,
     timeout |-> IF timeout = 0 THEN DefaultTimeout ELSE timeout]

NoProc == [argv |-> <<>>, stdin |-> NoStdin, start |-> 0, deadline |-> 0]

\* Mutant of Deadline: one budget for all the calls, from the first one on.
DeadlineFromFirstCall(start) ==
    (IF execLog # <<>> THEN execLog[1].start ELSE start) + registry.timeout

\* Line 290: context.WithTimeout(ctx, r.timeout) at time start.
Deadline(start) == start + registry.timeout

\* Registry.Execute up to cmd.Run: the local error, or the subprocess
\* started with its argument vector, standard input and deadline.
ExecuteBegins ==
    /\ execPc = "idle"
    /\ Len(execLog) < MaxExecs
    /\ IF ExecuteLocalError(toolCall) # Nil
       THEN /\ execLog' = Append(execLog,
                   [argv |-> <<>>, stdin |-> NoStdin, out |-> Empty,
                    err |-> ExecuteLocalError(toolCall), started |-> FALSE,
                    outcome |-> "local", start |-> now, deadline |-> now,
                    end |-> now])
            /\ UNCHANGED <<execPc, proc>>
       ELSE LET args == UnmarshalArgs(toolCall.Arguments).args
                cmdName == SplitN2(toolCall.Name)[2]
            IN /\ \E order \in MapOrders(args) :
                      proc' = [argv |-> buildCommandArgs(cmdDef, args, cmdName,
                                                         order),
                               stdin |-> StdinOf(cmdDef, args),
                               start |-> now,
                               deadline |-> Deadline(now)]
               /\ execPc' = "running"
               /\ UNCHANGED execLog
    /\ UNCHANGED <<registry, cmdDef, toolCall, now, toolDefs, adapterVars,
                   storeVars, daemonVars, loopVars>>

\* A second passes while the subprocess runs.
Tick ==
    /\ execPc = "running"
    /\ now < proc.deadline
    /\ now' = now + 1
    /\ UNCHANGED <<registry, cmdDef, toolCall, execPc, proc, execLog,
                   toolDefs, adapterVars, storeVars, daemonVars, loopVars>>

\* Lines 310-318: cmd.Run returns: the subprocess has exited, or it was
\* killed at its deadline.
ExecuteReturns(o) ==
    /\ execPc = "running"
    /\ (o = "timeout") => (now = proc.deadline)
    /\ execLog' = Append(execLog,
           [argv |-> proc.argv, stdin |-> proc.stdin,
            out |-> IF o = "ok" THEN EchoOutput(proc.argv) ELSE Empty,
            err |-> Execute(toolCall, o).err, started |-> TRUE,
            outcome |-> o, start |-> proc.start, deadline |-> proc.deadline,
            end |-> now])
    /\ execPc' = "idle"
    /\ proc' = NoProc
    /\ UNCHANGED <<registry, cmdDef, toolCall, now, toolDefs, adapterVars,
                   storeVars, daemonVars, loopVars>>

\* Lines 218-231: ToToolDefs is called and returns the definitions.
ToToolDefsCalled ==
    /\ toolDefs = {}
    /\ toolDefs' = ToToolDefs
    /\ UNCHANGED <<registry, cmdDef, toolCall, execPc, proc, now, execLog,
                   adapterVars, storeVars, daemonVars, loopVars>>

\* A registry with one of timeouts, its command "run" being one of defs, and
\* one of tcs to execute.
NewTools(timeouts, defs, tcs) ==
    /\ registry \in {NewRegistry(t) : t \in timeouts}
    /\ cmdDef \in defs
    /\ toolCall \in tcs
    /\ execPc = "idle"
    /\ proc = NoProc
    /\ now = 0
    /\ execLog = <<>>
    /\ toolDefs = {}

\* The command of RegistryTools: no template, no stdin.
FlagCommand == [Args |-> Empty, Stdin |-> FALSE, StdinParam |-> Empty]

\* The commands of the model: flag mode and two templates, each with and
\* without stdin, the stdin parameter being the default or "text".
CommandDefs ==
    {[Args |-> a, Stdin |-> b, StdinParam |-> p] :
        a \in {Empty, <<"{", "text", "}">>,
               <<"-n", " ", "{", "text", "}", " ", "{", "content", "}">>},
        b \in BOOLEAN,
        p \in {Empty, <<"text">>}}

\* The arguments texts of the model.
ArgumentTexts ==
    {<<"{", "}">>, <<"null">>, <<"{">>, <<"\"hi\"">>, Empty,
     <<"{", "\"text\"", ":", "\"hi\"", "}">>,
     <<"{", "\"text\"", ":", "\"a b\"", "}">>,
     <<"{", "\"text\"", ":", "\"a{b\"", "}">>,
     <<"{", "\"text\"", ":", "1.0", "}">>,
     <<"{", "\"text\"", ":", "null", "}">>,
     <<"{", "\"content\"", ":", "\"hi\"", "}">>,
     <<"{", "\"text\"", ":", "\"hi\"", ",", "\"text\"", ":", "\"a b\"", "}">>,
     <<"{", "\"text\"", ":", "\"a b\"", ",", "\"content\"", ":", "\"hi\"", "}">>}

\* The tool calls of the model: echo.run with each arguments text, and a
\* call for each name that does not resolve.
ExecCalls ==
    {ToolCall("x", <<"echo", ".", "run">>, a) :
        a \in ArgumentTexts}
    \cup {ToolCall("x", n, a) :
             n \in {<<"nope">>, <<"nope", ".", "cmd">>, <<"echo", ".", "zzz">>,
                    <<"echo", ".", "run", ".", "x">>, Empty},
             a \in {<<"{", "}">>, <<"{">>}}

-----------------------------------------------------------------------------
(* pkg/provider: the Anthropic and the OpenAI adapter *)

Variants == {"anthropic", "openai"}

\* The max_tokens the Anthropic adapter sends when the request has none.
DefaultMaxTokens == 4096

\* The HTTP status both adapters accept.
StatusOK == 200

DefaultModel ==
    [v \in Variants |->
        IF v = "anthropic" THEN <<"claude-sonnet-4-20250514">> ELSE <<"gpt-4o">>]

\* NewAnthropic, NewOpenAI: an empty apiKey is read from the environment, an
\* empty model is the variant's default.
NewAdapter(v, apiKey, model, env) ==
    [apiKey |-> IF apiKey = Empty THEN env ELSE apiKey,
     model |-> IF model = Empty THEN DefaultModel[v] ELSE model]

\* Mutant of CredentialError: only the Anthropic adapter checks its key.
CredentialErrorAnthropicOnly(v, a) ==
    IF a.apiKey = Empty /\ v = "anthropic"
    THEN <<"anthropic: ANTHROPIC_API_KEY not set">>
    ELSE Nil

\* The first statement of both Chat methods: the error of an adapter without
\* a credential; Nil when it has one.
CredentialError(v, a) ==
    IF a.apiKey = Empty
    THEN IF v = "anthropic"
         THEN <<"anthropic: ANTHROPIC_API_KEY not set">>
         ELSE <<"openai: API key not set (OPENAI_API_KEY)">>
    ELSE Nil

\* A Go value of type any decoded from JSON: a map of scalars, a scalar or
\* nil.
MapValue(members) == [type |-> "map", text |-> Empty, members |-> members]
ScalarValue(val) == [type |-> val.type, text |-> val.text, members |-> NoArgs]
NilValue == [type |-> "nil", text |-> Empty, members |-> NoArgs]

\* var input any; _ = json.Unmarshal([]byte(tc.Arguments), &input): the
\* error is dropped and input stays nil.
UnmarshalAny(a) ==
    IF IsJSONObject(a) THEN MapValue(UnmarshalArgs(a).args)
    ELSE IF Len(a) = 1 /\ IsValueTok(a[1]) THEN ScalarValue(JSONValue(a[1]))
    ELSE NilValue

\* The string literals of the model in the order of the bytes of their text,
\* the order in which json.Marshal writes the keys of a map.
SortedStringToks ==
    <<"\"a b\"", "\"a{b\"", "\"content\"", "\"hi\"", "\"text\"">>

StringTok(text) == CHOOSE t \in DOMAIN StringText : StringText[t] = text

\* json.Marshal of a scalar: one token.
MarshalScalar(val) ==
    IF val.type = "string" THEN StringTok(val.text)
    ELSE IF val.type = "float64" THEN val.text[1]
    ELSE "null"

RECURSIVE MarshalMembers(_, _, _)
MarshalMembers(members, k, first) ==
    IF k > Len(SortedStringToks) THEN <<>>
    ELSE LET key == StringText[SortedStringToks[k]] IN
         IF key \in DOMAIN members
         THEN (IF first THEN <<>> ELSE <<",">>)
              \o <<SortedStringToks[k], ":", MarshalScalar(members[key])>>
              \o MarshalMembers(members, k + 1, FALSE)
         ELSE MarshalMembers(members, k + 1, first)

\* Mutant of MarshalAny: a map is written without its members.
MarshalAnyDropsMembers(v) ==
    IF v.type = "map" THEN <<"{", "}">> ELSE <<MarshalScalar(v)>>

\* args, _ := json.Marshal(block.Input)
MarshalAny(v) ==
    IF v.type = "map" THEN <<"{">> \o MarshalMembers(v.members, 1, TRUE) \o <<"}">>
    ELSE <<MarshalScalar(v)>>

\* contentBlock: a field left out is empty, as omitempty leaves it.
TextBlock(text) ==
    [Type |-> "text", Text |-> text, ID |-> "", Name |-> Empty,
     Input |-> NilValue, ToolUseID |-> "", Content |-> Empty]

ToolUseBlock(id, name, input) ==
    [Type |-> "tool_use", Text |-> Empty, ID |-> id, Name |-> name,
     Input |-> input, ToolUseID |-> "", Content |-> Empty]

ToolResultBlock(toolUseID, content) ==
    [Type |-> "tool_result", Text |-> Empty, ID |-> "", Name |-> Empty,
     Input |-> NilValue, ToolUseID |-> toolUseID, Content |-> content]

\* anthropicMessage: Content is a string or a list of content blocks.
AnthropicText(role, text) ==
    [Role |-> role, Content |-> [text |-> text, blocks |-> <<>>, isText |-> TRUE]]

AnthropicBlocks(role, blocks) ==
    [Role |-> role,
     Content |-> [text |-> Empty, blocks |-> blocks, isText |-> FALSE]]

\* Mutant of ToolUseBlocks: a call whose arguments do not parse gets no
\* block.
ToolUseBlocksSkipInvalid(tcs) ==
    LET ok == SelectSeq(tcs, LAMBDA tc : UnmarshalAny(tc.Arguments) # NilValue)
    IN [k \in 1..Len(ok) |->
           ToolUseBlock(ok[k].ID, ok[k].Name, UnmarshalAny(ok[k].Arguments))]

\* Lines 112-121: the tool_use blocks of an assistant message's calls.
ToolUseBlocks(tcs) ==
    [k \in 1..Len(tcs) |->
        ToolUseBlock(tcs[k].ID, tcs[k].Name, UnmarshalAny(tcs[k].Arguments))]

\* Lines 98-137: the turns one message becomes.
AnthropicTurns(m) ==
    CASE m.Role = "user" -> <<AnthropicText("user", m.Content)>>
      [] m.Role = "assistant" ->
            IF Len(m.ToolCalls) > 0
            THEN <<AnthropicBlocks("assistant",
                       (IF m.Content # Empty THEN <<TextBlock(m.Content)>>
                        ELSE <<>>) \o ToolUseBlocks(m.ToolCalls))>>
            ELSE <<AnthropicText("assistant", m.Content)>>
      [] m.Role = "tool" ->
            <<AnthropicBlocks("user",
                  <<ToolResultBlock(m.ToolCallID, m.Content)>>)>>
      [] OTHER -> <<>>

RECURSIVE AnthropicMessages(_)
AnthropicMessages(msgs) ==
    IF msgs = <<>> THEN <<>>
    ELSE AnthropicTurns(Head(msgs)) \o AnthropicMessages(Tail(msgs))

\* Mutant of AnthropicSystem: the first system message is honoured.
RECURSIVE AnthropicSystemFirst(_)
AnthropicSystemFirst(msgs) ==
    IF msgs = <<>> THEN Empty
    ELSE IF Head(msgs).Role = "system" THEN Head(msgs).Content
    ELSE AnthropicSystemFirst(Tail(msgs))

\* Lines 101-102: system is the content of the last system message.
RECURSIVE AnthropicSystem(_)
AnthropicSystem(msgs) ==
    IF msgs = <<>> THEN Empty
    ELSE IF msgs[Len(msgs)].Role = "system" THEN msgs[Len(msgs)].Content
    ELSE AnthropicSystem(SubSeq(msgs, 1, Len(msgs) - 1))

\* Lines 86-148: the anthropicRequest of a ChatRequest.
AnthropicRequest(a, req) ==
    [Model |-> IF req.Model = Empty THEN a.model ELSE req.Model,
     MaxTokens |-> IF req.MaxTokens = 0 THEN DefaultMaxTokens
                   ELSE req.MaxTokens,
     System |-> AnthropicSystem(req.Messages),
     Messages |-> AnthropicMessages(req.Messages),
     Tools |-> {[Name |-> t.Name, Description |-> t.Description] :
                   t \in req.Tools}]

\* Mutant of OpenAIToolCall: the arguments are decoded and encoded again.
OpenAIToolCallReencoded(tc) ==
    [ID |-> tc.ID, Type |-> "function",
     Function |-> [Name |-> tc.Name,
                   Arguments |-> MarshalAny(UnmarshalAny(tc.Arguments))]]

\* openaiToolCall
OpenAIToolCall(tc) ==
    [ID |-> tc.ID, Type |-> "function",
     Function |-> [Name |-> tc.Name, Arguments |-> tc.Arguments]]

OpenAIMessage(role, content, toolCalls, toolCallID) ==
    [Role |-> role, Content |-> content, ToolCalls |-> toolCalls,
     ToolCallID |-> toolCallID]

\* Lines 241-263: the wire messages one message becomes.
OpenAITurns(m) ==
    CASE m.Role \in {"system", "user"} ->
            <<OpenAIMessage(m.Role, m.Content, <<>>, "")>>
      [] m.Role = "assistant" ->
            <<OpenAIMessage("assistant", m.Content,
                  [k \in 1..Len(m.ToolCalls) |-> OpenAIToolCall(m.ToolCalls[k])],
                  "")>>
      [] m.Role = "tool" ->
            <<OpenAIMessage("tool", m.Content, <<>>, m.ToolCallID)>>
      [] OTHER -> <<>>

RECURSIVE OpenAIMessages(_)
OpenAIMessages(msgs) ==
    IF msgs = <<>> THEN <<>>
    ELSE OpenAITurns(Head(msgs)) \o OpenAIMessages(Tail(msgs))

\* Lines 233-280: the openaiRequest of a ChatRequest.
OpenAIRequest(o, req) ==
    [Model |-> IF req.Model = Empty THEN o.model ELSE req.Model,
     Messages |-> OpenAIMessages(req.Messages),
     Tools |-> {[Type |-> "function",
                 Function |-> [Name |-> t.Name,
                               Description |-> t.Description]] :
                   t \in req.Tools}]

\* The HTTP request Chat performs: its credential header and its body.
HTTPRequest(v, a, req) ==
    [variant |-> v, key |-> a.apiKey,
     body |-> IF v = "anthropic" THEN AnthropicRequest(a, req)
              ELSE OpenAIRequest(a, req)]

\* What the HTTP call gives back: a transport error, or a status and a body
\* that is not JSON or decodes to the fields the adapters read.
HTTPResponse(failed, status, valid, type, error, content, choices) ==
    [failed |-> failed, status |-> status, valid |-> valid, type |-> type,
     error |-> error, content |-> content, choices |-> choices]

APIError == <<"overloaded_error", ": ", "Overloaded">>

\* Lines 204-215: content and tool calls of the response's blocks.
RECURSIVE AnthropicContent(_)
AnthropicContent(blocks) ==
    IF blocks = <<>> THEN Empty
    ELSE (IF Head(blocks).Type = "text" THEN Head(blocks).Text ELSE Empty)
         \o AnthropicContent(Tail(blocks))

RECURSIVE AnthropicToolCalls(_)
AnthropicToolCalls(blocks) ==
    IF blocks = <<>> THEN <<>>
    ELSE (IF Head(blocks).Type = "tool_use"
          THEN <<ToolCall(Head(blocks).ID, Head(blocks).Name,
                          MarshalAny(Head(blocks).Input))>>
          ELSE <<>>)
         \o AnthropicToolCalls(Tail(blocks))

ChatResult(r, e) == [resp |-> r, err |-> e]

\* Lines 170-216: what Anthropic.Chat returns for an HTTP response.
AnthropicResult(h) ==
    IF h.failed
    THEN ChatResult(NoResponse, <<"anthropic: request failed">>)
    ELSE IF h.status # StatusOK
    THEN ChatResult(NoResponse, <<"anthropic: HTTP ", ToString(h.status)>>)
    ELSE IF ~h.valid
    THEN ChatResult(NoResponse, <<"anthropic: unmarshal response">>)
    ELSE IF h.type = "error" /\ h.error # Nil
    THEN ChatResult(NoResponse, <<"anthropic: API error: ">> \o h.error)
    ELSE ChatResult(ChatResponse(AnthropicContent(h.content),
                                 AnthropicToolCalls(h.content)), Nil)

\* Mutant of OpenAIResult: the response is derived from the last choice.
OpenAIResultLastChoice(h) ==
    IF h.failed
    THEN ChatResult(NoResponse, <<"openai: request failed">>)
    ELSE IF h.status # StatusOK
    THEN ChatResult(NoResponse, <<"openai: HTTP ", ToString(h.status)>>)
    ELSE IF ~h.valid
    THEN ChatResult(NoResponse, <<"openai: unmarshal response">>)
    ELSE IF h.error # Nil
    THEN ChatResult(NoResponse, <<"openai: API error: ">> \o h.error)
    ELSE IF Len(h.choices) = 0
    THEN ChatResult(NoResponse, Nil)
    ELSE LET last == h.choices[Len(h.choices)] IN
         ChatResult(
             ChatResponse(last.Content,
                 [k \in 1..Len(last.ToolCalls) |->
                     ToolCall(last.ToolCalls[k].ID,
                              last.ToolCalls[k].Function.Name,
                              last.ToolCalls[k].Function.Arguments)]),
             Nil)

\* Lines 294-339: what OpenAI.Chat returns for an HTTP response.
OpenAIResult(h) ==
    IF h.failed
    THEN ChatResult(NoResponse, <<"openai: request failed">>)
    ELSE IF h.status # StatusOK
    THEN ChatResult(NoResponse, <<"openai: HTTP ", ToString(h.status)>>)
    ELSE IF ~h.valid
    THEN ChatResult(NoResponse, <<"openai: unmarshal response">>)
    ELSE IF h.error # Nil
    THEN ChatResult(NoResponse, <<"openai: API error: ">> \o h.error)
    ELSE IF Len(h.choices) = 0
    THEN ChatResult(NoResponse, Nil)
    ELSE ChatResult(
             ChatResponse(h.choices[1].Content,
                 [k \in 1..Len(h.choices[1].ToolCalls) |->
                     ToolCall(h.choices[1].ToolCalls[k].ID,
                              h.choices[1].ToolCalls[k].Function.Name,
                              h.choices[1].ToolCalls[k].Function.Arguments)]),
             Nil)

\* Mutant of ChatBegins: the adapter's default model is written into the
\* request.
ChatBeginsDefaultsRequest(v) ==
    /\ chatPc = "idle"
    /\ Len(chatLog) < MaxChats
    /\ IF CredentialError(v, adapters[v]) # Nil
       THEN /\ chatLog' = Append(chatLog,
                   [variant |-> v, req |-> chatReq, resp |-> NoResponse,
                    err |-> CredentialError(v, adapters[v]), sent |-> <<>>,
                    recv |-> <<>>])
            /\ UNCHANGED <<chatPc, chatOn, wire, chatReq>>
       ELSE /\ wire' = Append(wire, HTTPRequest(v, adapters[v], chatReq))
            /\ chatPc' = "http"
            /\ chatOn' = v
            /\ chatReq' = [chatReq EXCEPT !.Model = wire'[Len(wire')].body.Model]
            /\ UNCHANGED chatLog
    /\ UNCHANGED <<adapters, toolVars, storeVars, daemonVars, loopVars>>

\* Chat up to the HTTP call: the credential error, or the request is sent.
ChatBegins(v) ==
    /\ chatPc = "idle"
    /\ Len(chatLog) < MaxChats
    /\ IF CredentialError(v, adapters[v]) # Nil
       THEN /\ chatLog' = Append(chatLog,
                   [variant |-> v, req |-> chatReq, resp |-> NoResponse,
                    err |-> CredentialError(v, adapters[v]), sent |-> <<>>,
                    recv |-> <<>>])
            /\ UNCHANGED <<chatPc, chatOn, wire>>
       ELSE /\ wire' = Append(wire, HTTPRequest(v, adapters[v], chatReq))
            /\ chatPc' = "http"
            /\ chatOn' = v
            /\ UNCHANGED chatLog
    /\ UNCHANGED <<adapters, chatReq, toolVars, storeVars, daemonVars,
                   loopVars>>

\* The HTTP call returns h and Chat returns what it makes of it.
HTTPReturns(h) ==
    /\ chatPc = "http"
    /\ LET res == IF chatOn = "anthropic" THEN AnthropicResult(h)
                  ELSE OpenAIResult(h)
       IN chatLog' = Append(chatLog,
              [variant |-> chatOn, req |-> chatReq, resp |-> res.resp,
               err |-> res.err, sent |-> <<wire[Len(wire)]>>,
               recv |-> <<h>>])
    /\ chatPc' = "idle"
    /\ chatOn' = ""
    /\ UNCHANGED <<adapters, chatReq, wire, toolVars, storeVars, daemonVars,
                   loopVars>>

\* Both adapters, each constructed with one of keys while the environment
\* holds one of envs, and one of reqs to send.
NewAdapters(keys, envs, reqs) ==
    /\ adapters \in {[v \in Variants |-> NewAdapter(v, ks[v], Empty, e)] :
                        ks \in [Variants -> keys], e \in envs}
    /\ chatReq \in reqs
    /\ chatPc = "idle"
    /\ chatOn = ""
    /\ wire = <<>>
    /\ chatLog = <<>>

\* No Chat is called on an adapter of its own.
NoChat == NewAdapters({<<"sk">>}, {Empty}, {[Model |-> Empty, MaxTokens |-> 0,
                                            Messages |-> <<>>, Tools |-> {}]})

\* The message lists of the requests of the model: with no, one and two
\* system messages, with assistant messages that carry tool calls and the
\* tool messages that answer them, and with a role no adapter knows.
RequestMessages ==
    {<<>>,
     <<Message("system", <<"sys">>, <<>>, ""),
       Message("user", <<"hi">>, <<>>, "")>>,
     <<Message("system", <<"sys">>, <<>>, ""),
       Message("user", <<"hi">>, <<>>, ""),
       Message("system", <<"sum">>, <<>>, "")>>,
     <<Message("user", <<"hi">>, <<>>, ""),
       Message("assistant", <<"text">>,
               <<ToolCall("t1", <<"echo", ".", "run">>,
                          <<"{", "\"text\"", ":", "\"hi\"", "}">>)>>, ""),
       Message("tool", <<"hi">>, <<>>, "t1")>>,
     <<Message("user", <<"hi">>, <<>>, ""),
       Message("assistant", Empty,
               <<ToolCall("t1", <<"echo", ".", "run">>,
                          <<"{", "\"text\"", ":", "\"a b\"", ",",
                            "\"content\"", ":", "\"hi\"", "}">>),
                 ToolCall("t2", <<"echo", ".", "run">>, <<"{">>)>>, ""),
       Message("tool", <<"a b">>, <<>>, "t1"),
       Message("tool", <<"Error: parse tool arguments">>, <<>>, "t2")>>,
     <<Message("developer", <<"sys">>, <<>>, ""),
       Message("user", <<"hi">>, <<>>, ""),
       Message("assistant", <<"text">>, <<>>, "")>>}

\* The requests of the model: with and without a model and a token limit.
ChatRequests ==
    {[Model |-> c.model, MaxTokens |-> c.maxTokens, Messages |-> msgs,
      Tools |-> ToToolDefs] :
        c \in {[model |-> Empty, maxTokens |-> 0],
               [model |-> <<"m">>, maxTokens |-> 100]},
        msgs \in RequestMessages}

\* The content block lists of the Anthropic response bodies of the model.
ResponseBlocks ==
    {<<>>,
     <<TextBlock(<<"text">>)>>,
     <<TextBlock(<<"a">>),
       ToolUseBlock("t1", <<"echo", ".", "run">>,
                    MapValue([k \in {<<"text">>} |->
                                 [type |-> "string", text |-> <<"hi">>]])),
       TextBlock(<<"b">>),
       ToolUseBlock("t2", <<"echo", ".", "run">>, NilValue)>>,
     <<ToolUseBlock("t1", <<"echo", ".", "run">>,
                    MapValue([k \in {<<"text">>, <<"content">>} |->
                                 IF k = <<"text">>
                                 THEN [type |-> "string", text |-> <<"a", " ", "b">>]
                                 ELSE [type |-> "float64", text |-> <<"1">>]])),
       ToolUseBlock("t2", <<"echo", ".", "run">>, MapValue(NoArgs)),
       ToolUseBlock("t3", <<"echo", ".", "run">>,
                    ScalarValue([type |-> "string", text |-> <<"hi">>]))>>}

\* The choices lists of the OpenAI response bodies of the model.
ResponseChoices ==
    {<<>>,
     <<OpenAIMessage("assistant", <<"text">>, <<>>, "")>>,
     <<OpenAIMessage("assistant", Empty,
           <<OpenAIToolCall(ToolCall("t1", <<"echo", ".", "run">>,
                                     <<"{", "}">>))>>, ""),
       OpenAIMessage("assistant", <<"other">>, <<>>, "")>>}

\* The HTTP responses of the model.
HTTPResponses ==
    {HTTPResponse(TRUE, 0, FALSE, "", Nil, <<>>, <<>>),
     HTTPResponse(FALSE, 500, FALSE, "", Nil, <<>>, <<>>),
     HTTPResponse(FALSE, StatusOK, FALSE, "", Nil, <<>>, <<>>),
     HTTPResponse(FALSE, StatusOK, TRUE, "error", APIError, <<>>, <<>>),
     HTTPResponse(FALSE, StatusOK, TRUE, "error", Nil, <<>>, <<>>)}
    \cup {HTTPResponse(FALSE, StatusOK, TRUE, "message", Nil, b, <<>>) :
              b \in ResponseBlocks}
    \cup {HTTPResponse(FALSE, StatusOK, TRUE, "", Nil, <<>>, c) :
              c \in ResponseChoices}

-----------------------------------------------------------------------------
(* pkg/session: Manager *)

SessionKey == <<"m">>

NoSessions == [k \in {} |-> 0]

\* Manager.getOrCreate
getOrCreate(ss, key) ==
    IF key \in DOMAIN ss THEN ss
    ELSE [k \in DOMAIN ss \cup {key} |->
             IF k = key THEN [Key |-> key, Messages |-> <<>>, Summary |-> Empty]
             ELSE ss[k]]

GetHistory(ss, key) == IF key \in DOMAIN ss THEN ss[key].Messages ELSE <<>>

GetSummary(ss, key) == IF key \in DOMAIN ss THEN ss[key].Summary ELSE Empty

AddMessage(ss, key, msg) ==
    LET s == getOrCreate(ss, key) IN
    [s EXCEPT ![key].Messages = Append(@, msg)]

SetSummaryOp(ss, key, summary, keepLast) ==
    LET s == getOrCreate(ss, key)
        n == Len(s[key].Messages) IN
    [s EXCEPT ![key].Summary = summary,
              ![key].Messages = IF keepLast > 0 /\ n > keepLast
                                THEN SubSeq(@, n - keepLast + 1, n)
                                ELSE @]

\* sanitize: strings.ReplaceAll(key, ":", "_")
sanitize(key) == [k \in DOMAIN key |-> IF key[k] = ":" THEN "_" ELSE key[k]]

\* A byte that is not valid UTF-8, and the replacement rune U+FFFD.
InvalidByte == "\\xff"
ReplacementRune == "\\ufffd"

\* encoding/json of a string: invalid UTF-8 is replaced by U+FFFD.
ToValidUTF8(t) ==
    [k \in DOMAIN t |-> IF t[k] = InvalidByte THEN ReplacementRune ELSE t[k]]

\* encoding/json of a provider.Message: tool_calls and tool_call_id are
\* omitempty.
MarshalMessage(m) ==
    LET base == [role |-> m.Role, content |-> ToValidUTF8(m.Content)]
        withCalls == IF m.ToolCalls # <<>>
                     THEN base @@ [tool_calls |-> m.ToolCalls] ELSE base
    IN IF m.ToolCallID # ""
       THEN withCalls @@ [tool_call_id |-> m.ToolCallID] ELSE withCalls

UnmarshalMessage(j) ==
    Message(j.role, j.content,
            IF "tool_calls" \in DOMAIN j THEN j.tool_calls ELSE <<>>,
            IF "tool_call_id" \in DOMAIN j THEN j.tool_call_id ELSE "")

MarshalSession(s) ==
    LET base == [key |-> s.Key,
                 messages |-> [k \in DOMAIN s.Messages |->
                                  MarshalMessage(s.Messages[k])]]
    IN IF s.Summary # Empty
       THEN base @@ [summary |-> ToValidUTF8(s.Summary)] ELSE base

UnmarshalSession(j) ==
    [Key |-> j.key,
     Messages |-> [k \in DOMAIN j.messages |-> UnmarshalMessage(j.messages[k])],
     Summary |-> IF "summary" \in DOMAIN j THEN j.summary ELSE Empty]

\* Manager.Save: the directory after a Save of key that succeeds.
Save(ss, d, key) ==
    IF key \notin DOMAIN ss THEN d
    ELSE [f \in DOMAIN d \cup {sanitize(key) \o <<".json">>} |->
             IF f = sanitize(key) \o <<".json">>
             THEN MarshalSession(ss[key]) ELSE d[f]]

\* Lines 164-174: the files loadAll reads: those with extension .json
\* whose content decodes.
Loadable(d) ==
    {f \in DOMAIN d :
        /\ f # <<>>
        /\ f[Len(f)] = ".json"
        /\ DOMAIN d[f] # {}
        /\ "key" \in DOMAIN d[f]}

\* Manager.loadAll: the sessions a new Manager holds over directory d.
loadAll(d) ==
    LET keys == {UnmarshalSession(d[f]).Key : f \in Loadable(d)} IN
    [k \in keys |->
        UnmarshalSession(d[CHOOSE f \in Loadable(d) :
                               UnmarshalSession(d[f]).Key = k])]

\* The sessions a Manager holds.
Holding(ss) == {ss[k] : k \in DOMAIN ss}

\* The goroutines that call Save.
Savers == {"s1", "s2"}

NotSaving(ret) ==
    [pc |-> "idle", key |-> Empty, data |-> <<>>, tmp |-> Empty, ret |-> ret]

\* What a caller holds before it has called GetHistory.
NoHist ==
    [got |-> FALSE, key |-> Empty, msgs |-> <<>>, shares |-> <<>>, writes |-> 0]

\* Lines 129-133: os.CreateTemp(m.dir, "session-*.tmp")
TempName(n) == <<"session-", ToString(n), ".tmp">>

\* Lines 125-126: the final path of a session file.
FinalPath(key) == sanitize(key) \o <<".json">>

\* Mutant of WritePath: the data is written to the final path.
WritePathFinal(sv) == FinalPath(sv.key)

\* Line 136: the file tmp.Write writes to.
WritePath(sv) == sv.tmp

\* A file of which only a first part of data has been written.
Torn(data) == [torn |-> data]

\* Directory d with content c in file f.
WriteFile(d, f, c) == [g \in DOMAIN d \cup {f} |-> IF g = f THEN c ELSE d[g]]

\* os.Remove(f)
RemoveFile(d, f) == [g \in DOMAIN d \ {f} |-> d[g]]

\* os.Rename(from, to)
RenameFile(d, from, to) ==
    IF from \in DOMAIN d THEN WriteFile(RemoveFile(d, from), to, d[from]) ELSE d

\* No call is made on the Manager except by Run.
NoStoreCalls ==
    /\ hist = NoHist
    /\ savers = [p \in Savers |-> NotSaving("none")]
    /\ held = Holding(sessions)
    /\ nextTmp = 0
    /\ storeOps = 0
    /\ lastKey = Empty

\* Manager.AddMessage(key, msg), called on its own.
StoreAddMessage(key, msg) ==
    /\ storeOps < MaxStoreOps
    /\ sessions' = AddMessage(sessions, key, msg)
    /\ held' = held \cup Holding(sessions')
    /\ storeOps' = storeOps + 1
    /\ lastKey' = key
    /\ UNCHANGED <<disk, hist, savers, nextTmp, runVars, toolVars,
                   adapterVars, daemonVars>>

\* Manager.SetSummary(key, summary, keepLast), called on its own: the
\* messages it drops are no longer shared with what GetHistory returned.
StoreSetSummary(key, summary, keepLast) ==
    /\ storeOps < MaxStoreOps
    /\ sessions' = SetSummaryOp(sessions, key, summary, keepLast)
    /\ LET dropped == Len(GetHistory(sessions, key))
                        - Len(GetHistory(sessions', key))
       IN hist' = IF hist.key = key
                  THEN [hist EXCEPT !.shares =
                           [k \in DOMAIN @ |->
                               IF @[k] > dropped THEN @[k] - dropped ELSE 0]]
                  ELSE hist
    /\ held' = held \cup Holding(sessions')
    /\ storeOps' = storeOps + 1
    /\ lastKey' = key
    /\ UNCHANGED <<disk, savers, nextTmp, runVars, toolVars, adapterVars,
                   daemonVars>>

\* Lines 43-54: GetHistory(key) returns a new slice with the stored
\* messages copied into it; the ToolCalls slice of each copy shares its
\* array with the stored message it was copied from.
CallGetHistory(key) ==
    /\ hist' = [got |-> TRUE, key |-> key, msgs |-> GetHistory(sessions, key),
                shares |-> [k \in 1..Len(GetHistory(sessions, key)) |-> k],
                writes |-> 0]
    /\ hist' # hist
    /\ lastKey' = Empty
    /\ UNCHANGED <<sessions, disk, savers, held, nextTmp, storeOps, runVars,
                   toolVars, adapterVars, daemonVars>>

Mutated == <<"mutated">>

\* The caller assigns to a field of a message it got from GetHistory.
CallerSetsContent(k) ==
    /\ hist.got
    /\ k \in 1..Len(hist.msgs)
    /\ hist.msgs[k].Content # Mutated
    /\ hist' = [hist EXCEPT !.msgs[k].Content = Mutated, !.writes = @ + 1]
    /\ lastKey' = Empty
    /\ UNCHANGED <<sessions, disk, savers, held, nextTmp, storeOps, runVars,
                   toolVars, adapterVars, daemonVars>>

\* The caller assigns to a field of a tool call of a message it got from
\* GetHistory, while no Save is in progress: the assignment writes to the
\* array the ToolCalls slice points to.
CallerWritesToolCall(k, c) ==
    /\ hist.got
    /\ \A p \in Savers : savers[p].pc = "idle"
    /\ k \in 1..Len(hist.msgs)
    /\ c \in 1..Len(hist.msgs[k].ToolCalls)
    /\ hist.msgs[k].ToolCalls[c].Name # Mutated
    /\ hist' = [hist EXCEPT !.msgs[k].ToolCalls[c].Name = Mutated,
                            !.writes = @ + 1]
    /\ sessions' =
           IF hist.shares[k] # 0
           THEN [sessions EXCEPT
                    ![hist.key].Messages[hist.shares[k]].ToolCalls[c].Name =
                        Mutated]
           ELSE sessions
    /\ held' = held \cup Holding(sessions')
    /\ lastKey' = Empty
    /\ UNCHANGED <<disk, savers, nextTmp, storeOps, runVars, toolVars,
                   adapterVars, daemonVars>>

\* Lines 103-126: Save(key) returns nil for a session the Manager does not
\* hold, and otherwise copies the session under the read lock and encodes
\* the copy.
SaveBegins(p, key) ==
    /\ savers[p].pc = "idle"
    /\ nextTmp + Cardinality({q \in Savers : savers[q].pc = "create"})
          < MaxSaves
    /\ savers' = [savers EXCEPT ![p] =
                     IF key \notin DOMAIN sessions
                     THEN [NotSaving("nil") EXCEPT !.key = key]
                     ELSE [pc |-> "create", key |-> key,
                           data |-> MarshalSession(sessions[key]),
                           tmp |-> Empty, ret |-> "none"]]
    /\ savers' # savers
    /\ lastKey' = key
    /\ UNCHANGED <<sessions, disk, hist, held, nextTmp, storeOps, runVars,
                   toolVars, adapterVars, daemonVars>>

\* Lines 129-134: the temporary file is created.
SaveCreatesTemp(p) ==
    /\ savers[p].pc = "create"
    /\ nextTmp' = nextTmp + 1
    /\ disk' = WriteFile(disk, TempName(nextTmp'), <<>>)
    /\ savers' = [savers EXCEPT ![p].pc = "write", ![p].tmp = TempName(nextTmp')]
    /\ lastKey' = savers[p].key
    /\ UNCHANGED <<sessions, hist, held, storeOps, runVars, toolVars,
                   adapterVars, daemonVars>>

\* Line 136: tmp.Write has written a first part of the data.
SaveWrites(p) ==
    /\ savers[p].pc = "write"
    /\ disk' = WriteFile(disk, WritePath(savers[p]), Torn(savers[p].data))
    /\ savers' = [savers EXCEPT ![p].pc = "writing"]
    /\ lastKey' = savers[p].key
    /\ UNCHANGED <<sessions, hist, held, nextTmp, storeOps, runVars, toolVars,
                   adapterVars, daemonVars>>

\* Lines 136-140: tmp.Write has written all the data and tmp is closed.
SaveWriteEnds(p) ==
    /\ savers[p].pc = "writing"
    /\ disk' = WriteFile(disk, WritePath(savers[p]), savers[p].data)
    /\ savers' = [savers EXCEPT ![p].pc = "rename"]
    /\ lastKey' = savers[p].key
    /\ UNCHANGED <<sessions, hist, held, nextTmp, storeOps, runVars, toolVars,
                   adapterVars, daemonVars>>

\* Line 142: the temporary file is renamed to the final path and Save
\* returns nil; the deferred os.Remove finds no file.
SaveRenames(p) ==
    /\ savers[p].pc = "rename"
    /\ disk' = RenameFile(disk, savers[p].tmp, FinalPath(savers[p].key))
    /\ savers' = [savers EXCEPT ![p].pc = "idle", ![p].ret = "nil"]
    /\ lastKey' = savers[p].key
    /\ UNCHANGED <<sessions, hist, held, nextTmp, storeOps, runVars, toolVars,
                   adapterVars, daemonVars>>

\* Lines 130-142: CreateTemp, Write or Rename fails: Save returns the error
\* and the deferred os.Remove removes the temporary file.
SaveFails(p) ==
    /\ savers[p].pc \in {"create", "writing", "rename"}
    /\ disk' = IF savers[p].pc = "create" THEN disk
               ELSE RemoveFile(disk, savers[p].tmp)
    /\ savers' = [savers EXCEPT ![p].pc = "idle", ![p].ret = "err"]
    /\ lastKey' = savers[p].key
    /\ UNCHANGED <<sessions, hist, held, nextTmp, storeOps, runVars, toolVars,
                   adapterVars, daemonVars>>

\* The process dies during a Save and a new Manager is created over the
\* directory as the process left it.
StoreCrash ==
    /\ \E p \in Savers : savers[p].pc # "idle"
    /\ sessions' = loadAll(disk)
    /\ held' = held \cup Holding(sessions')
    /\ savers' = [p \in Savers |-> NotSaving("none")]
    /\ hist' = NoHist
    /\ lastKey' = Empty
    /\ UNCHANGED <<disk, nextTmp, storeOps, runVars, toolVars, adapterVars,
                   daemonVars>>

-----------------------------------------------------------------------------
(* pkg/context: Builder *)

\* Builder.BuildSystemPrompt
BuildSystemPrompt(summary) ==
    <<"identity">>
    \o (IF ToToolDefs # {} THEN <<"\n\n---\n\n", "## Available Tools">>
        ELSE Empty)
    \o (IF summary # Empty
        THEN <<"\n\n---\n\n", "## Previous Conversation Summary\n\n">>
                 \o summary
        ELSE Empty)

\* Mutant of BuildMessages: the user message is put before the history.
BuildMessagesUserFirst(history, summary, userMessage) ==
    <<Message("system", BuildSystemPrompt(summary), <<>>, "")>>
    \o <<Message("user", userMessage, <<>>, "")>>
    \o history

\* Builder.BuildMessages
BuildMessages(history, summary, userMessage) ==
    <<Message("system", BuildSystemPrompt(summary), <<>>, "")>>
    \o history
    \o <<Message("user", userMessage, <<>>, "")>>

-----------------------------------------------------------------------------
(* The environment: what the user, the provider and the tools can do *)

UserTexts == {<<"hi">>}
Contents == {Empty, <<"text">>}
Summaries == {<<"sum">>}
ProviderErrors == {<<"API down">>}

\* The tool calls a provider response is built from: a call that resolves,
\* and one call for each local error of Execute.
ToolCallMenu ==
    {ToolCall("t1", <<"echo", ".", "run">>, <<"{", "}">>),
     ToolCall("t2", <<"echo", ".", "run">>, <<"{">>),
     ToolCall("t3", <<"nope">>, <<"{", "}">>),
     ToolCall("t4", <<"nope", ".", "cmd">>, <<"{", "}">>),
     ToolCall("t5", <<"echo", ".", "zzz">>, <<"{", "}">>)}

\* The call lists of a response: ToolCall.ID is unique within one turn (it
\* may come back in a later turn).
CallSeqs(n) ==
    UNION {{s \in [1..k -> ToolCallMenu] :
               \A a, b \in 1..k : a # b => s[a].ID # s[b].ID} : k \in 0..n}

Responses(n) == {ChatResponse(c, s) : c \in Contents, s \in CallSeqs(n)}

Min(a, b) == IF a < b THEN a ELSE b

-----------------------------------------------------------------------------
(* pkg/toolreg: Register, and the names ToToolDefs and Execute use *)

\* An empty Registry.tools.
NoTools == [t \in {} |-> 0]

\* A ToolManifest with the commands named cmds.
ToolManifest(name, cmds) ==
    [Name |-> name, Binary |-> <<"echo">>,
     Commands |-> [c \in cmds |-> [Description |-> <<"echoes input">>]]]

\* Lines 218-231: the ToolDef ToToolDefs appends for each tool and each of
\* its commands (the order of the slice is that of Go's map iteration).
ToToolDefsOf(ts) ==
    [p \in {q \in (DOMAIN ts) \X UNION {DOMAIN ts[u].Commands : u \in DOMAIN ts} :
               q[2] \in DOMAIN ts[q[1]].Commands} |->
        [Name |-> ts[p[1]].Name \o <<".">> \o p[2],
         Description |-> <<"[">> \o ts[p[1]].Name \o <<"] ">>
                             \o ts[p[1]].Commands[p[2]].Description]]

\* Lines 264-278 of Execute: the tool and the command a name resolves to,
\* or the error Execute returns.
Resolve(ts, name) ==
    LET parts == SplitN2(name) IN
    IF Len(parts) # 2
    THEN [err |-> <<"invalid tool name: ">> \o name
                      \o <<" (expected tool.command)">>,
          tool |-> Empty, cmd |-> Empty]
    ELSE IF parts[1] \notin DOMAIN ts
    THEN [err |-> <<"unknown tool: ">> \o parts[1], tool |-> Empty,
          cmd |-> Empty]
    ELSE IF parts[2] \notin DOMAIN ts[parts[1]].Commands
    THEN [err |-> <<"unknown command: ">> \o parts[1] \o <<".">> \o parts[2],
          tool |-> Empty, cmd |-> Empty]
    ELSE [err |-> Nil, tool |-> ts[parts[1]].Name, cmd |-> parts[2]]

\* No registry is filled by Register.
NoManifests ==
    /\ tools = NoTools
    /\ advertised = <<>>
    /\ lookups = <<>>

\* Registry.Register(m)
Register(m) ==
    /\ advertised = <<>>
    /\ tools' = [t \in DOMAIN tools \cup {m.Name} |->
                    IF t = m.Name THEN m ELSE tools[t]]
    /\ UNCHANGED <<advertised, lookups, cronVars, schedVars, toolVars,
                   adapterVars, storeVars, loopVars>>

\* ToToolDefs is called on the filled registry.
ToToolDefsAdvertised ==
    /\ advertised = <<>>
    /\ advertised' = <<ToToolDefsOf(tools)>>
    /\ UNCHANGED <<tools, lookups, cronVars, schedVars, toolVars,
                   adapterVars, storeVars, loopVars>>

\* Execute is called with the name of the ToolDef advertised for tool p[1]
\* and its command p[2], and resolves the name.
ExecuteAdvertised(p) ==
    /\ advertised # <<>>
    /\ p \in DOMAIN advertised[1]
    /\ Len(lookups) < MaxLookups
    /\ lookups' = Append(lookups,
                         [pair |-> p, name |-> advertised[1][p].Name,
                          res |-> Resolve(tools, advertised[1][p].Name)])
    /\ UNCHANGED <<tools, advertised, cronVars, schedVars, toolVars,
                   adapterVars, storeVars, loopVars>>

-----------------------------------------------------------------------------
(* pkg/scheduler: the cron expression parser *)

\* The decimal literals of the model and the int strconv.Atoi gives for each.
DecimalValue ==
    [t \in {"0", "1", "2", "5", "6", "7", "8", "10", "15", "17", "30", "31",
            "59", "60"} |->
        CASE t = "0" -> 0 [] t = "1" -> 1 [] t = "2" -> 2 [] t = "5" -> 5
          [] t = "6" -> 6 [] t = "7" -> 7 [] t = "8" -> 8 [] t = "10" -> 10
          [] t = "15" -> 15 [] t = "17" -> 17 [] t = "30" -> 30
          [] t = "31" -> 31 [] t = "59" -> 59 [] t = "60" -> 60]

\* strconv.Atoi(text): a text of one decimal literal converts, no other does.
Atoi(text) ==
    IF Len(text) = 1 /\ text[1] \in DOMAIN DecimalValue
    THEN [ok |-> TRUE, val |-> DecimalValue[text[1]]]
    ELSE [ok |-> FALSE, val |-> 0]

\* strings.Index(s, c) for a one-character c, counted from 1; 0 when absent.
Index1(s, c) ==
    IF Contains1(s, c)
    THEN CHOOSE k \in DOMAIN s : s[k] = c /\ \A j \in 1..(k - 1) : s[j] # c
    ELSE 0

\* strings.Split(s, c) for a one-character c
RECURSIVE Split1(_, _)
Split1(s, c) ==
    IF Index1(s, c) = 0 THEN <<s>>
    ELSE <<SubSeq(s, 1, Index1(s, c) - 1)>>
             \o Split1(SubSeq(s, Index1(s, c) + 1, Len(s)), c)

\* Lines 153-155 of parsePart: the indexes the loop sets, from lo to hi in
\* steps of step.
Stepped(lo, hi, step) == {v \in lo..hi : (v - lo) % step = 0}

\* Lines 116-123 of parsePart: the step and the part without it.
StepOf(part) ==
    LET idx == Index1(part, "/") IN
    IF idx = 0 THEN [ok |-> TRUE, step |-> 1, part |-> part]
    ELSE LET n == Atoi(SubSeq(part, idx + 1, Len(part)))
         IN [ok |-> n.ok /\ n.val > 0, step |-> n.val,
             part |-> SubSeq(part, 1, idx - 1)]

\* Lines 125-147 of parsePart: lo and hi of a part without its step.
RangeOf(part, min, max) ==
    IF part = <<"*">> THEN [ok |-> TRUE, lo |-> min, hi |-> max]
    ELSE IF Contains1(part, "-")
    THEN LET idx == Index1(part, "-")
             lo == Atoi(SubSeq(part, 1, idx - 1))
             hi == Atoi(SubSeq(part, idx + 1, Len(part)))
         IN [ok |-> lo.ok /\ hi.ok, lo |-> lo.val, hi |-> hi.val]
    ELSE LET val == Atoi(part)
         IN [ok |-> val.ok, lo |-> val.val, hi |-> val.val]

\* parsePart: whether the part is accepted, and the indexes it sets.
parsePart(part, min, max) ==
    LET st == StepOf(part)
        r == RangeOf(st.part, min, max)
    IN IF ~st.ok \/ ~r.ok THEN [ok |-> FALSE, set |-> {}]
       ELSE IF r.lo < min \/ r.hi > max \/ r.lo > r.hi
       THEN [ok |-> FALSE, set |-> {}]
       ELSE [ok |-> TRUE, set |-> Stepped(r.lo, r.hi, st.step)]

\* parseField: a slice of max+1 booleans, or an error. (The parts are
\* parsed once: parsed ranges over the one sequence of their results.)
parseField(field, min, max) ==
    LET parts == Split1(field, ",")
        Slice(parsed) ==
            IF \E k \in DOMAIN parsed : ~parsed[k].ok
            THEN [ok |-> FALSE, result |-> <<>>]
            ELSE [ok |-> TRUE,
                  result |-> [v \in 0..max |->
                                 \E k \in DOMAIN parsed : v \in parsed[k].set]]
    IN CHOOSE r \in {Slice(parsed) :
                        parsed \in {[k \in DOMAIN parts |->
                                        parsePart(parts[k], min, max)]}} : TRUE

\* Mutant of NormalizeDayOfWeek: 7 is dropped.
NormalizeDayOfWeekDrops7(dow) == [v \in 0..6 |-> dow[v]]

\* Lines 56-68 of ParseCron: the seven days of the week, 7 counted as 0.
NormalizeDayOfWeek(dow) ==
    [v \in 0..6 |-> IF v = 0 THEN dow[0] \/ dow[7] ELSE dow[v]]

\* ParseCron: the CronExpr of a 5-field expression, or an error.
ParseCron(expr) ==
    LET fields == Fields(expr) IN
    IF Len(fields) # 5 THEN [ok |-> FALSE]
    ELSE LET minute == parseField(fields[1], 0, 59)
             hour == parseField(fields[2], 0, 23)
             dom == parseField(fields[3], 1, 31)
             month == parseField(fields[4], 1, 12)
             dow == parseField(fields[5], 0, 7)
         IN IF ~minute.ok \/ ~hour.ok \/ ~dom.ok \/ ~month.ok \/ ~dow.ok
            THEN [ok |-> FALSE]
            ELSE [ok |-> TRUE, Minute |-> minute.result, Hour |-> hour.result,
                  DayOfMonth |-> dom.result, Month |-> month.result,
                  DayOfWeek |-> NormalizeDayOfWeek(dow.result)]

\* len(slice) of a slice indexed from 0
SliceLen(slice) == Cardinality(DOMAIN slice)

\* CronExpr.Matches(t)
Matches(c, t) ==
    /\ ~(t.Minute < SliceLen(c.Minute) /\ ~c.Minute[t.Minute])
    /\ ~(t.Hour < SliceLen(c.Hour) /\ ~c.Hour[t.Hour])
    /\ ~(t.Day < SliceLen(c.DayOfMonth) /\ ~c.DayOfMonth[t.Day])
    /\ ~(t.Month < SliceLen(c.Month) /\ ~c.Month[t.Month])
    /\ ~(t.Weekday < SliceLen(c.DayOfWeek) /\ ~c.DayOfWeek[t.Weekday])

\* A time.Time by its calendar fields.
Time(minute, hour, day, month, weekday) ==
    [Minute |-> minute, Hour |-> hour, Day |-> day, Month |-> month,
     Weekday |-> weekday]

\* No ParseCron call is made on its own.
NoCron ==
    /\ cronExpr = Empty
    /\ cronAt = Time(0, 0, 1, 1, 0)
    /\ cronOut = <<>>

\* ParseCron(expr) and, when it succeeds, Matches(t) return.
MatchesCalled ==
    /\ cronOut = <<>>
    /\ \E c \in {ParseCron(cronExpr)} :
           cronOut' = <<[ok |-> c.ok,
                         matches |-> IF c.ok THEN Matches(c, cronAt)
                                     ELSE FALSE]>>
    /\ UNCHANGED <<cronExpr, cronAt, manifestVars, schedVars, toolVars,
                   adapterVars, storeVars, loopVars>>

-----------------------------------------------------------------------------
(* pkg/scheduler: Scheduler *)

\* The period of the loop's ticker, in seconds.
TickerPeriod == 30

\* time.ParseDuration for the durations of the model, in seconds.
DurationSeconds ==
    [t \in {"0s", "10s", "30s", "1m"} |->
        CASE t = "0s" -> 0 [] t = "10s" -> 10 [] t = "30s" -> 30
          [] t = "1m" -> 60]

\* parseInterval: the interval of an "@every <duration>" schedule, the
\* chunk "@every " standing for its seven characters.
parseInterval(schedule) ==
    IF /\ Len(schedule) = 2
       /\ schedule[1] = "@every "
       /\ schedule[2] \in DOMAIN DurationSeconds
    THEN [ok |-> TRUE, interval |-> DurationSeconds[schedule[2]]]
    ELSE [ok |-> FALSE, interval |-> 0]

\* The time.Time of the clock: the minutes pass, the date stays.
TimeAt(t) == Time((t \div 60) % 60, 0, 1, 1, 4)

\* t.Truncate(time.Minute), in minutes
TruncateMinute(t) == t \div 60

\* shouldRun(schedule, last, now)
shouldRun(schedule, last, nowt) ==
    IF parseInterval(schedule).ok
    THEN nowt - last >= parseInterval(schedule).interval
    ELSE \E cron \in {ParseCron(schedule)} :
             /\ cron.ok
             /\ Matches(cron, TimeAt(nowt))
             /\ TruncateMinute(nowt) > TruncateMinute(last)

\* shouldRunInitial(schedule, now)
shouldRunInitial(schedule, nowt) ==
    IF parseInterval(schedule).ok THEN TRUE
    ELSE \E cron \in {ParseCron(schedule)} :
             cron.ok /\ Matches(cron, TimeAt(nowt))

\* Mutant of Skipped: the Enabled flag is not looked at.
SkippedNever(job) == FALSE

\* Lines 99-101 of checkJobs: a job that is not enabled is passed over.
Skipped(job) == ~job.Enabled

\* lastRun[name] = now
SetLastRun(lastRun, name, nowt) ==
    [n \in DOMAIN lastRun \cup {name} |->
        IF n = name THEN nowt ELSE lastRun[n]]

\* checkJobs from job number k on: the lastRun map it leaves and the jobs
\* it starts a runJob goroutine for, in order.
RECURSIVE checkJobs(_, _, _)
checkJobs(k, lastRun, nowt) ==
    IF k > Len(jobs) THEN [lastRun |-> lastRun, fired |-> <<>>]
    ELSE LET job == jobs[k]
             ok == job.Name \in DOMAIN lastRun
         IN IF Skipped(job) THEN checkJobs(k + 1, lastRun, nowt)
            ELSE IF ok /\ ~shouldRun(job.Schedule, lastRun[job.Name], nowt)
            THEN checkJobs(k + 1, lastRun, nowt)
            ELSE IF ~ok /\ ~shouldRunInitial(job.Schedule, nowt)
            THEN checkJobs(k + 1, SetLastRun(lastRun, job.Name, nowt), nowt)
            ELSE LET rest == checkJobs(k + 1,
                                       SetLastRun(lastRun, job.Name, nowt),
                                       nowt)
                 IN [lastRun |-> rest.lastRun, fired |-> <<k>> \o rest.fired]

\* The runJob goroutines loop l starts at a check: each calls runFn with
\* the job's session key and prompt.
RunJobs(fired, l) ==
    [n \in 1..Len(fired) |->
        [job |-> fired[n], name |-> jobs[fired[n]].Name,
         session |-> jobs[fired[n]].Session, at |-> clock, loop |-> l,
         returned |-> FALSE]]

\* ctx.Done() of loop l: Stop has cancelled it, or the ctx that was passed
\* to Start is cancelled.
Done(l) == loops[l].cancelled \/ parentDone

\* Scheduler.Running()
SchedulerRunning == running

\* New(nil, runFn, verbose): a scheduler nobody starts.
NoScheduler ==
    /\ jobs = <<>>
    /\ running = FALSE
    /\ schedCancel = 0
    /\ parentDone = FALSE
    /\ loops = <<>>
    /\ clock = 0
    /\ firings = <<>>

\* New(js, runFn, verbose)
NewScheduler(js) ==
    /\ jobs = js
    /\ running = FALSE
    /\ schedCancel = 0
    /\ parentDone = FALSE
    /\ loops = <<>>
    /\ clock = 0
    /\ firings = <<>>

\* Scheduler.Start(ctx) of a scheduler that is not running.
Start ==
    /\ ~running
    /\ Len(loops) < MaxStarts
    /\ loops' = Append(loops, [cancelled |-> FALSE, lastRun |-> NoTools,
                               pc |-> "start", next |-> 0])
    /\ schedCancel' = Len(loops) + 1
    /\ running' = TRUE
    /\ UNCHANGED <<jobs, parentDone, clock, firings, manifestVars, cronVars,
                   toolVars, adapterVars, storeVars, loopVars>>

\* Scheduler.Stop()
Stop ==
    /\ running \/ (schedCancel # 0 /\ ~loops[schedCancel].cancelled)
    /\ loops' = IF schedCancel # 0
                THEN [loops EXCEPT ![schedCancel].cancelled = TRUE]
                ELSE loops
    /\ running' = FALSE
    /\ UNCHANGED <<jobs, schedCancel, parentDone, clock, firings,
                   manifestVars, cronVars, toolVars, adapterVars, storeVars,
                   loopVars>>

\* The caller cancels the ctx it passed to Start.
CancelStartCtx ==
    /\ ~parentDone
    /\ loops # <<>>
    /\ parentDone' = TRUE
    /\ UNCHANGED <<jobs, running, schedCancel, loops, clock, firings,
                   manifestVars, cronVars, toolVars, adapterVars, storeVars,
                   loopVars>>

\* Lines 78-84 and 90-91 of loop: loop l checks the jobs, at its start and
\* on each tick of its ticker, and waits for the next tick.
LoopChecks(l) ==
    /\ l \in DOMAIN loops
    /\ \/ loops[l].pc = "start"
       \/ loops[l].pc = "wait" /\ clock >= loops[l].next
    /\ \E c \in {checkJobs(1, loops[l].lastRun, clock)} :
           /\ loops' = [loops EXCEPT ![l].lastRun = c.lastRun,
                                     ![l].pc = "wait",
                                     ![l].next = clock + TickerPeriod]
           /\ firings' = firings \o RunJobs(c.fired, l)
    /\ UNCHANGED <<jobs, running, schedCancel, parentDone, clock,
                   manifestVars, cronVars, toolVars, adapterVars, storeVars,
                   loopVars>>

\* Lines 88-89 of loop: loop l finds its ctx done and returns.
LoopExits(l) ==
    /\ l \in DOMAIN loops
    /\ loops[l].pc = "wait"
    /\ Done(l)
    /\ loops' = [loops EXCEPT ![l].pc = "exited"]
    /\ UNCHANGED <<jobs, running, schedCancel, parentDone, clock, firings,
                   manifestVars, cronVars, toolVars, adapterVars, storeVars,
                   loopVars>>

\* Lines 122-130 of runJob: runFn returns and the goroutine ends.
RunFnReturns(f) ==
    /\ f \in DOMAIN firings
    /\ ~firings[f].returned
    /\ firings' = [firings EXCEPT ![f].returned = TRUE]
    /\ UNCHANGED <<jobs, running, schedCancel, parentDone, loops, clock,
                   manifestVars, cronVars, toolVars, adapterVars, storeVars,
                   loopVars>>

\* Time passes until the next tick; a loop whose check is due makes it, or
\* returns, first.
TimePasses ==
    /\ clock < MaxTicks * TickerPeriod
    /\ \A l \in DOMAIN loops :
           \/ loops[l].pc = "exited"
           \/ loops[l].pc = "wait" /\ clock < loops[l].next
    /\ clock' = clock + TickerPeriod
    /\ UNCHANGED <<jobs, running, schedCancel, parentDone, loops, firings,
                   manifestVars, cronVars, toolVars, adapterVars, storeVars,
                   loopVars>>

\* Nothing of the daemon is used on its own.
NoDaemon == NoManifests /\ NoCron /\ NoScheduler

-----------------------------------------------------------------------------
(* pkg/loop: AgentLoop.Run *)

\* The ctx of a Run that is not cancelled; a cancelled one records how many
\* provider calls and Execute calls Run had made when it was cancelled.
NotCancelled == [on |-> FALSE, calls |-> 0, execs |-> 0]

\* The Execute calls Run has made: those that returned and the one in flight.
ExecsBegun == Len(executed) + (IF pc = "proc" THEN 1 ELSE 0)

\* The outcomes the Execute call in flight can have: a call with a local
\* error starts no subprocess; with ctx cancelled the subprocess of a call
\* made before the cancellation is killed, a call made after it starts none.
ExecOutcomes(tc) ==
    IF ExecuteLocalError(tc) # Nil THEN {"ok"}
    ELSE IF ~cancel.on THEN ProcOutcomes
    ELSE IF ExecsBegun > cancel.execs THEN {"canceled"}
    ELSE {"killed"}

\* What the capture binary does, per configuration: AutoCapture off, the
\* binary not found by exec.LookPath, the process failing, the process
\* succeeding.
CaptureModes == {"disabled", "missing", "fails", "ok"}

\* Mutant of captureEval: a failed capture process loses the response.
captureEvalLosesResponse(r, iteration) ==
    [resp |-> IF capture = "fails" THEN NoResponse ELSE r,
     procs |-> IF capture \in {"disabled", "missing"} THEN <<>>
               ELSE <<[iteration |-> iteration, failed |-> capture = "fails"]>>]

\* Lines 91-94 and captureEval: the capture process that is run, if any,
\* and the response Run goes on with (cmd.Run's error is discarded).
captureEval(r, iteration) ==
    [resp |-> r,
     procs |-> IF capture \in {"disabled", "missing"} THEN <<>>
               ELSE <<[iteration |-> iteration, failed |-> capture = "fails"]>>]

ChatOp(n) == [op |-> "chat", iter |-> n, idx |-> 0]
ExecOp(n, k) == [op |-> "exec", iter |-> n, idx |-> k]

\* Mutant of Returned: the callee is started and not waited for.
ReturnedNotAwaited(fl, op) == fl

\* A call statement: the callee is in flight from the call until it returns,
\* and Run goes on only when it has returned.
Began(fl, op) == fl \cup {op}
Returned(fl, op) == fl \ {op}

\* Mutant of LoopCondition: the loop body runs before the first test.
LoopConditionAtLeastOnce(iter) == iter = 0 \/ iter < cfgMaxIterations

\* Mutant of LoopCondition: one iteration too many.
LoopConditionOffByOne(iter) == iter <= cfgMaxIterations

\* Line 77: the loop condition.
LoopCondition(iter) == iter < cfgMaxIterations

\* Mutant of ToolResultText: the error of a failed call is dropped.
ToolResultTextDropsError(r) == r.out

\* Lines 123-126: the text of a tool result.
ToolResultText(r) == IF r.err # Nil THEN ErrorResult(r.err) ELSE r.out

\* Mutant of ToolMessage: the tool message does not carry the call's id.
ToolMessageWithoutID(tc, text) == Message("tool", text, <<>>, "")

\* Lines 132-136: the tool message of a tool call.
ToolMessage(tc, text) == Message("tool", text, <<>>, tc.ID)

\* Mutant of LastIterationContent: no sentinel for an empty content.
LastIterationContentNoSentinel(iter, r) ==
    IF iter = cfgMaxIterations - 1 THEN r.Content ELSE Empty

\* Lines 142-147: finalContent at the end of iteration iter.
LastIterationContent(iter, r) ==
    IF iter = cfgMaxIterations - 1
    THEN IF r.Content = Empty THEN MaxIterationsText ELSE r.Content
    ELSE Empty

\* Mutant of FinalContent: no fallback.
FinalContentNoFallback(finalContent) == finalContent

\* Lines 150-152: the fallback for an empty finalContent.
FinalContent(finalContent) ==
    IF finalContent = Empty THEN FallbackText ELSE finalContent

\* Mutant of FinishRun: the final assistant message is not added.
FinishRunWithoutFinalMessage(ss, finalContent, cs, fl) ==
    LET final == FinalContent(finalContent)
    IN /\ sessions' = ss
       /\ \E saved \in BOOLEAN :
              disk' = IF saved THEN Save(ss, disk, SessionKey) ELSE disk
       /\ result' = final
       /\ err' = Nil
       /\ calls' = cs
       /\ inflight' = fl
       /\ pc' = "done"

\* Lines 150-158: the fallback, the final assistant message and the Save.
FinishRun(ss, finalContent, cs, fl) ==
    LET final == FinalContent(finalContent)
        s1 == AddMessage(ss, SessionKey, Message("assistant", final, <<>>, ""))
    IN /\ sessions' = s1
       /\ \E saved \in BOOLEAN :
              disk' = IF saved THEN Save(s1, disk, SessionKey) ELSE disk
       /\ result' = final
       /\ err' = Nil
       /\ calls' = cs
       /\ inflight' = fl
       /\ pc' = "done"

\* Line 77: the loop condition, then the provider call of lines 83-86 or
\* the end of the loop.
LoopOrFinish(ss, msgs, iter, finalContent, cs, fl) ==
    IF LoopCondition(iter)
    THEN /\ calls' = Append(cs, ChatRequest(msgs))
         /\ inflight' = Began(fl, ChatOp(iter))
         /\ pc' = "chat"
         /\ sessions' = ss
         /\ result' = Empty
         /\ err' = Nil
         /\ disk' = disk
    ELSE FinishRun(ss, finalContent, cs, fl)

\* Lines 60-77: Run up to its first provider call.
RunStart(userMessage) ==
    /\ pc \in {"idle", "done", "failed"}
    /\ runs < MaxRuns
    /\ LET history == GetHistory(sessions, SessionKey)
           summary == GetSummary(sessions, SessionKey)
           msgs == BuildMessages(history, summary, userMessage)
           s1 == AddMessage(sessions, SessionKey,
                            Message("user", userMessage, <<>>, ""))
       IN /\ messages' = msgs
          /\ LoopOrFinish(s1, msgs, 0, Empty, <<>>, {})
    /\ runs' = runs + 1
    /\ i' = 0
    /\ resp' = NoResponse
    /\ tcIdx' = 0
    /\ resps' = <<>>
    /\ executed' = <<>>
    /\ iterDone' = <<>>
    /\ crashed' = FALSE
    /\ cancel' = NotCancelled
    /\ captured' = <<>>
    /\ UNCHANGED <<cfgMaxIterations, emitted, capture, others>>

\* Mutant of ChatFails: the failed provider call is tried again.
ChatFailsRetry(e) ==
    /\ pc = "chat"
    /\ resps' = Append(resps, [err |-> e, resp |-> NoResponse])
    /\ calls' = Append(calls, ChatRequest(messages))
    /\ UNCHANGED <<cfgMaxIterations, sessions, disk, pc, messages, i, resp,
                   tcIdx, result, err, executed, inflight, iterDone, crashed,
                   emitted, runs, cancel, capture, captured, others>>

\* Mutant of ChatFails: the session is saved before Run returns the error.
ChatFailsSaves(e) ==
    /\ pc = "chat"
    /\ resps' = Append(resps, [err |-> e, resp |-> NoResponse])
    /\ result' = Empty
    /\ err' = RunError(i, e)
    /\ inflight' = Returned(inflight, ChatOp(i))
    /\ pc' = "failed"
    /\ disk' = Save(sessions, disk, SessionKey)
    /\ UNCHANGED <<cfgMaxIterations, sessions, messages, i, resp, tcIdx,
                   calls, executed, iterDone, crashed, emitted, runs, cancel,
                   capture, captured, others>>

\* Lines 87-89: the provider call failed.
ChatFails(e) ==
    /\ pc = "chat"
    /\ resps' = Append(resps, [err |-> e, resp |-> NoResponse])
    /\ result' = Empty
    /\ err' = RunError(i, e)
    /\ inflight' = Returned(inflight, ChatOp(i))
    /\ pc' = "failed"
    /\ UNCHANGED <<cfgMaxIterations, sessions, disk, messages, i, resp, tcIdx,
                   calls, executed, iterDone, crashed, emitted, runs, cancel,
                   capture, captured, others>>

\* Mutant of NoToolCalls: the loop goes on instead of ending.
NoToolCallsContinue(r, fl) ==
    LoopOrFinish(sessions, messages, i + 1, r.Content, calls, fl)

\* Lines 102-106: no tool calls, the loop ends with the response's content.
NoToolCalls(r, fl) == FinishRun(sessions, r.Content, calls, fl)

\* Lines 91-123: the provider answered rr.
ChatReturns(rr) ==
    /\ pc = "chat"
    /\ resps' = Append(resps, [err |-> Nil, resp |-> rr])
    /\ emitted' = emitted + Len(rr.ToolCalls)
    /\ LET cap == captureEval(rr, i + 1)
           r == cap.resp
       IN /\ captured' = captured \o cap.procs
          /\ resp' = r
          /\ IF Len(r.ToolCalls) = 0
             THEN /\ NoToolCalls(r, Returned(inflight, ChatOp(i)))
                  /\ UNCHANGED <<messages, tcIdx>>
             ELSE LET assistantMsg ==
                          Message("assistant", r.Content, r.ToolCalls, "")
                  IN /\ messages' = Append(messages, assistantMsg)
                     /\ sessions' = AddMessage(sessions, SessionKey, assistantMsg)
                     /\ tcIdx' = 1
                     /\ inflight' = Began(Returned(inflight, ChatOp(i)),
                                          ExecOp(i, 1))
                     /\ pc' = "proc"
                     /\ UNCHANGED <<disk, result, err, calls>>
    /\ UNCHANGED <<cfgMaxIterations, i, executed, iterDone, crashed, runs,
                   cancel, capture, others>>

\* Lines 123-148: Execute of the current tool call returned; its subprocess,
\* if one was started, ended with outcome o.
ExecReturns(o) ==
    /\ pc = "proc"
    /\ LET tc == resp.ToolCalls[tcIdx]
           r == Execute(tc, o)
           toolMsg == ToolMessage(tc, ToolResultText(r))
           msgs == Append(messages, toolMsg)
           ss == AddMessage(sessions, SessionKey, toolMsg)
           fl == Returned(inflight, ExecOp(i, tcIdx))
           n == Len(resp.ToolCalls)
       IN /\ o \in ExecOutcomes(tc)
          /\ executed' = Append(executed,
                 [iter |-> i, idx |-> tcIdx, call |-> tc, out |-> r.out,
                  err |-> r.err, started |-> r.started])
          /\ messages' = msgs
          /\ IF tcIdx < n
             THEN /\ tcIdx' = tcIdx + 1
                  /\ inflight' = Began(fl, ExecOp(i, tcIdx + 1))
                  /\ sessions' = ss
                  /\ pc' = "proc"
                  /\ UNCHANGED <<i, iterDone, disk, result, err, calls>>
             ELSE /\ tcIdx' = 0
                  /\ i' = i + 1
                  /\ iterDone' = iterDone \o SubSeq(msgs, Len(msgs) - n, Len(msgs))
                  /\ LoopOrFinish(ss, msgs, i + 1,
                                  LastIterationContent(i, resp), calls, fl)
    /\ UNCHANGED <<cfgMaxIterations, resp, resps, crashed, emitted, runs,
                   cancel, capture, captured, others>>

\* The process dies while Run waits for the provider or a tool; a new
\* Manager is then created over the same directory (NewManager, loadAll).
CrashRestart ==
    /\ pc \in {"chat", "proc"}
    /\ sessions' = loadAll(disk)
    /\ crashed' = TRUE
    /\ pc' = "idle"
    /\ inflight' = {}
    /\ messages' = <<>>
    /\ i' = 0
    /\ resp' = NoResponse
    /\ tcIdx' = 0
    /\ result' = Empty
    /\ err' = Nil
    /\ UNCHANGED <<cfgMaxIterations, disk, calls, resps, executed, iterDone,
                   emitted, runs, cancel, capture, captured, others>>

\* The caller cancels the ctx it passed to Run while Run waits for the
\* provider or for a tool.
Cancel ==
    /\ pc \in {"chat", "proc"}
    /\ ~cancel.on
    /\ cancel' = [on |-> TRUE, calls |-> Len(calls), execs |-> ExecsBegun]
    /\ UNCHANGED <<cfgMaxIterations, sessions, disk, pc, messages, i, resp,
                   tcIdx, result, err, calls, resps, executed, inflight,
                   iterDone, crashed, emitted, runs, capture, captured, others>>

\* Manager.SetSummary, called between Runs.
SetSummary(summary, keepLast) ==
    /\ pc \in {"idle", "done", "failed"}
    /\ sessions' = SetSummaryOp(sessions, SessionKey, summary, keepLast)
    /\ UNCHANGED <<cfgMaxIterations, disk, pc, messages, i, resp, tcIdx,
                   result, err, calls, resps, executed, inflight, iterDone,
                   crashed, emitted, runs, cancel, capture, captured, others>>

\* The store an earlier Run that answered "text" to "hi" has saved.
EarlierSessions ==
    AddMessage(AddMessage(NoSessions, SessionKey,
                          Message("user", <<"hi">>, <<>>, "")),
               SessionKey, Message("assistant", <<"text">>, <<>>, ""))

\* loop.New with capture configured to be one of modes, over a session
\* Manager that has loaded one of stores from its directory.
NewLoop(modes, stores) ==
    /\ cfgMaxIterations \in -1..MaxIter
    /\ capture \in modes
    /\ captured = <<>>
    /\ cancel = NotCancelled
    /\ sessions \in stores
    /\ disk = Save(sessions, NoSessions, SessionKey)
    /\ pc = "idle"
    /\ messages = <<>>
    /\ i = 0
    /\ resp = NoResponse
    /\ tcIdx = 0
    /\ result = Empty
    /\ err = Nil
    /\ calls = <<>>
    /\ resps = <<>>
    /\ executed = <<>>
    /\ inflight = {}
    /\ iterDone = <<>>
    /\ crashed = FALSE
    /\ emitted = 0
    /\ runs = 0
    /\ NoStoreCalls

\* No Execute is called on its own.
NoExecute ==
    NewTools({DefaultTimeout}, {FlagCommand},
             {ToolCall("", Empty, Empty)})

Init ==
    NewLoop({"disabled"}, {NoSessions}) /\ NoExecute
    /\ NoChat /\ NoDaemon

\* One Run of a freshly constructed AgentLoop over an empty session directory.
Next ==
    \/ \E u \in UserTexts : runs = 0 /\ RunStart(u)
    \/ \E e \in ProviderErrors : ChatFails(e)
    \/ \E r \in Responses(Min(MaxCalls, MaxToolCalls - emitted)) : ChatReturns(r)
    \/ \E o \in ProcOutcomes : ExecReturns(o)
    \/ CrashRestart

Spec == Init /\ [][Next]_vars

\* Several Runs, one after the other, over the same session store, with
\* SetSummary calls between them.
NextSessions ==
    \/ \E u \in UserTexts : RunStart(u)
    \/ \E e \in ProviderErrors : ChatFails(e)
    \/ \E r \in Responses(Min(MaxCalls, MaxSessionToolCalls - emitted)) :
           ChatReturns(r)
    \/ \E o \in ProcOutcomes : ExecReturns(o)
    \/ CrashRestart
    \/ \E s \in Summaries, k \in 0..MaxKeep : SetSummary(s, k)

SpecSessions == Init /\ [][NextSessions]_vars

\* The provider calls that fail: with an error of the backend while ctx is
\* live, with ctx's error once it is cancelled.
CancelErrors == {<<"context canceled">>}

\* One Run whose ctx the caller may cancel while Run waits. The provider
\* honours the ctx: once it is cancelled, Chat returns ctx's error.
NextCancel ==
    \/ \E u \in UserTexts : runs = 0 /\ RunStart(u)
    \/ \E e \in ProviderErrors : ~cancel.on /\ ChatFails(e)
    \/ \E e \in CancelErrors : cancel.on /\ ChatFails(e)
    \/ \E r \in Responses(Min(MaxCalls, MaxToolCalls - emitted)) :
           ~cancel.on /\ ChatReturns(r)
    \/ \E o \in ProcOutcomes \cup CancelOutcomes : ExecReturns(o)
    \/ Cancel

SpecCancel == Init /\ [][NextCancel]_vars

\* One Run of a process that does not crash.
NextRun ==
    \/ \E u \in UserTexts : runs = 0 /\ RunStart(u)
    \/ \E e \in ProviderErrors : ChatFails(e)
    \/ \E r \in Responses(Min(MaxCalls, MaxRunToolCalls - emitted)) :
           ChatReturns(r)
    \/ \E o \in ProcOutcomes : ExecReturns(o)

\* One Run under each configuration of the capture.
InitCapture ==
    NewLoop(CaptureModes, {NoSessions}) /\ NoExecute
    /\ NoChat /\ NoDaemon

SpecCapture == InitCapture /\ [][NextRun]_vars

\* One Run over a new session store or over one an earlier Run has saved.
InitResumed ==
    NewLoop({"disabled"}, {NoSessions, EarlierSessions}) /\ NoExecute
    /\ NoChat /\ NoDaemon

SpecResumed == InitResumed /\ [][NextRun]_vars

\* An AgentLoop of which no Run is made.
NoRun == NewLoop({"disabled"}, {NoSessions}) /\ cfgMaxIterations = MaxIter

\* Execute called up to MaxExecs times in a row with one tool call, on a
\* registry whose command is one of CommandDefs.
InitExec ==
    NoRun /\ NewTools({1}, CommandDefs, ExecCalls) /\ NoChat /\ NoDaemon

NextExec ==
    \/ ExecuteBegins
    \/ Tick
    \/ \E o \in ProcOutcomes : ExecuteReturns(o)

SpecExec == InitExec /\ [][NextExec]_vars

\* The same with one tool call that resolves, on registries configured
\* with each timeout up to MaxTimeout.
InitTimeout ==
    NoRun /\ NewTools(0..MaxTimeout, {FlagCommand},
                      {ToolCall("x", <<"echo", ".", "run">>, <<"{", "}">>)})
    /\ NoChat /\ NoDaemon

SpecTimeout == InitTimeout /\ [][NextExec]_vars

\* Chat called up to MaxChats times in a row with one request, on either
\* adapter, each constructed with or without a credential.
InitChat ==
    NoRun /\ NoExecute
    /\ NewAdapters({Empty, <<"sk">>}, {Empty, <<"env">>}, ChatRequests)
    /\ NoDaemon

NextChat ==
    \/ \E v \in Variants : ChatBegins(v)
    \/ \E h \in HTTPResponses : HTTPReturns(h)

SpecChat == InitChat /\ [][NextChat]_vars

\* The request and the responses of the calls made side by side.
SharedRequests == {r \in ChatRequests : r.Model = Empty /\ Len(r.Messages) = 4}

SharedResponses ==
    {h \in HTTPResponses :
        \/ h.status # StatusOK /\ ~h.failed
        \/ h.valid /\ Len(h.content) = 1
        \/ h.valid /\ Len(h.choices) = 1}

\* Chat on either adapter, Execute and ToToolDefs called side by side on
\* one registry and one pair of adapters, their steps interleaved.
InitShared ==
    /\ NoRun
    /\ NewTools({1}, {d \in CommandDefs : d.Args = Empty /\ d.StdinParam = Empty},
                {tc \in ExecCalls : tc.Arguments \in {<<"{">>, <<"{", "}">>}
                                    /\ Len(tc.Name) = 3})
    /\ NewAdapters({Empty, <<"sk">>}, {Empty}, SharedRequests)
    /\ NoDaemon

NextShared ==
    \/ \E v \in Variants : ChatBegins(v)
    \/ \E h \in SharedResponses : HTTPReturns(h)
    \/ ExecuteBegins
    \/ Tick
    \/ \E o \in ProcOutcomes : ExecuteReturns(o)
    \/ ToToolDefsCalled

SpecShared == InitShared /\ [][NextShared]_vars

\* The keys of the sessions of a Manager called on its own.
StoreKeys == {<<"a", ":", "b">>, <<"a", "_", "b">>}

\* The messages added to them: of a user, of an assistant with a tool call,
\* and of a tool whose output is not valid UTF-8.
StoreMessages ==
    {Message("user", <<"hi">>, <<>>, ""),
     Message("assistant", Empty,
             <<ToolCall("t1", <<"echo", ".", "run">>, <<"{", "}">>)>>, ""),
     Message("tool", <<InvalidByte>>, <<>>, "t1")}

\* An empty session directory and a Manager created over it.
InitStore ==
    NoRun /\ NoExecute
    /\ NoChat /\ NoDaemon

\* AddMessage, SetSummary and the steps of Save calls made by two
\* goroutines, interleaved, with crashes of the process during a Save.
NextStore ==
    \/ \E k \in StoreKeys, msg \in StoreMessages : StoreAddMessage(k, msg)
    \/ \E k \in StoreKeys, s \in Summaries, n \in 0..1 :
           StoreSetSummary(k, s, n)
    \/ \E p \in Savers, k \in StoreKeys : SaveBegins(p, k)
    \/ \E p \in Savers : SaveCreatesTemp(p)
    \/ \E p \in Savers : SaveWrites(p)
    \/ \E p \in Savers : SaveWriteEnds(p)
    \/ \E p \in Savers : SaveRenames(p)
    \/ \E p \in Savers : SaveFails(p)
    \/ StoreCrash

SpecStore == InitStore /\ [][NextStore]_vars

\* AddMessage and the steps of Save calls made by two goroutines on one
\* session, interleaved, with crashes of the process during a Save.
NextSave ==
    \/ \E msg \in StoreMessages : StoreAddMessage(SessionKey, msg)
    \/ \E p \in Savers : SaveBegins(p, SessionKey)
    \/ \E p \in Savers : SaveCreatesTemp(p)
    \/ \E p \in Savers : SaveWrites(p)
    \/ \E p \in Savers : SaveWriteEnds(p)
    \/ \E p \in Savers : SaveRenames(p)
    \/ \E p \in Savers : SaveFails(p)
    \/ StoreCrash

SpecSave == InitStore /\ [][NextSave]_vars

\* A caller that adds messages, gets the history, assigns to what it got
\* and saves, one call after the other.
NextHistory ==
    \/ \E msg \in StoreMessages : StoreAddMessage(SessionKey, msg)
    \/ CallGetHistory(SessionKey)
    \/ \E k \in 1..MaxStoreOps : CallerSetsContent(k)
    \/ \E k \in 1..MaxStoreOps : CallerWritesToolCall(k, 1)
    \/ SaveBegins("s1", SessionKey)
    \/ SaveCreatesTemp("s1")
    \/ SaveWrites("s1")
    \/ SaveWriteEnds("s1")
    \/ SaveRenames("s1")

SpecHistory == InitStore /\ [][NextHistory]_vars

-----------------------------------------------------------------------------
(* Properties of Run *)

RespOK(k) == resps[k].err = Nil
HasCalls(k) == RespOK(k) /\ resps[k].resp.ToolCalls # <<>>

\* The message list Run holds once iteration k is over: what the next
\* request carries, or Run's list at its return.
MessagesAfter(k) == IF k < Len(calls) THEN calls[k + 1].Messages ELSE messages

\* The Execute calls of iteration iter (counted from 0), in order of return.
ExecutedIn(iter) == SelectSeq(executed, LAMBDA e : e.iter = iter)

Running == pc \in {"chat", "proc"}

\* C1: once the tool calls of the k-th response are executed (at the next
\* provider call, or at Run's return), the assistant message carrying the N
\* calls is directly followed by exactly N tool messages, the j-th with the
\* id of the j-th call, in Run's message list and in the session store,
\* whatever each Execute returned.
C1_ToolMessagesFollowCalls ==
    \A k \in 1..Len(resps) :
        (HasCalls(k) /\ (k < Len(calls) \/ pc = "done")) =>
            LET tcs == resps[k].resp.ToolCalls
                before == calls[k].Messages
                after == MessagesAfter(k)
                b == Len(before)
                h == GetHistory(sessions, SessionKey)
            IN /\ Len(after) = b + 1 + Len(tcs)
               /\ SubSeq(after, 1, b) = before
               /\ after[b + 1] =
                      Message("assistant", resps[k].resp.Content, tcs, "")
               /\ \A j \in 1..Len(tcs) :
                      /\ after[b + 1 + j].Role = "tool"
                      /\ after[b + 1 + j].ToolCallID = tcs[j].ID
                      /\ after[b + 1 + j].ToolCalls = <<>>
               /\ (Running \/ pc = "done") =>
                      /\ Len(h) >= b + Len(tcs)
                      /\ SubSeq(h, b, b + Len(tcs))
                            = SubSeq(after, b + 1, b + 1 + Len(tcs))

\* C1 witness: a second provider call is made after a response with two
\* tool calls, one of which failed and one of which succeeded.
C1_Witness ==
    /\ pc = "chat"
    /\ Len(calls) = 2
    /\ Len(resps[1].resp.ToolCalls) = 2
    /\ \E a, b \in 1..Len(executed) :
           executed[a].err # Nil /\ executed[b].err = Nil

\* C3: when the first response carries no tool call, Run has made exactly
\* one provider call, has executed no tool and has returned, with a nil
\* error and, when the content is not empty, with that content.
C3_NoToolCallsOneProviderCall ==
    (Len(resps) >= 1 /\ RespOK(1) /\ resps[1].resp.ToolCalls = <<>>) =>
        /\ Len(calls) = 1
        /\ Len(resps) = 1
        /\ executed = <<>>
        /\ pc = "done"
        /\ err = Nil
        /\ resps[1].resp.Content # Empty => result = resps[1].resp.Content

\* C3 witness: Run returned the content of a first response without tool
\* calls.
C3_Witness ==
    /\ pc = "done"
    /\ Len(resps) = 1
    /\ RespOK(1)
    /\ resps[1].resp.ToolCalls = <<>>
    /\ resps[1].resp.Content = <<"text">>
    /\ result = <<"text">>

\* C4: with MaxIterations = N >= 1 Run never makes more than N provider
\* calls, and a Run all of whose responses carried tool calls has, at its
\* return, made exactly N provider calls and returns a nil error and a text
\* that is not empty.
C4_ExactlyMaxIterationsCalls ==
    cfgMaxIterations >= 1 =>
        /\ Len(calls) <= cfgMaxIterations
        /\ (pc = "done" /\ \A k \in 1..Len(resps) : HasCalls(k)) =>
               /\ Len(calls) = cfgMaxIterations
               /\ Len(resps) = cfgMaxIterations
               /\ err = Nil
               /\ result # Empty

\* C4 witness: with MaxIterations = 3, Run returned after three responses
\* that all carried tool calls.
C4_Witness ==
    /\ cfgMaxIterations = 3
    /\ pc = "done"
    /\ Len(calls) = 3
    /\ \A k \in 1..Len(resps) : HasCalls(k)

\* C6: a provider error is the last thing a Run does: the failed call is
\* the last provider call, no tool call of its iteration or a later one is
\* executed, and Run has returned an error with the empty text.
C6_ProviderErrorIsFatal ==
    \A k \in 1..Len(resps) :
        ~RespOK(k) =>
            /\ k = Len(resps)
            /\ Len(calls) = k
            /\ \A n \in 1..Len(executed) : executed[n].iter < k - 1
            /\ pc = "failed"
            /\ inflight = {}
            /\ result = Empty
            /\ err = RunError(k - 1, resps[k].err)
            /\ err # Nil

\* C6 witness: the provider fails in the second iteration, after a tool ran.
C6_Witness ==
    /\ pc = "failed"
    /\ Len(resps) = 2
    /\ Len(executed) >= 1

\* C7: a Run that returns a nil error returns a text that is not empty.
C7_NilErrorNonEmptyText ==
    pc = "done" => (err = Nil /\ result # Empty)

\* C7 witness: the provider answered with empty content and no tool call,
\* and Run returned the fallback text.
C7_Witness ==
    /\ pc = "done"
    /\ Len(resps) = 1
    /\ RespOK(1)
    /\ resps[1].resp = ChatResponse(Empty, <<>>)
    /\ result = FallbackText

\* C8: when the MaxIterations-th response still carries tool calls, Run
\* executes them all, in order, makes no further provider call and returns
\* a nil error with the response's content, or with the sentinel text when
\* that content is empty.
C8_BudgetExhausted ==
    LET n == cfgMaxIterations IN
    (pc = "done" /\ n >= 1 /\ Len(resps) = n /\ HasCalls(n)) =>
        /\ Len(calls) = n
        /\ [j \in 1..Len(ExecutedIn(n - 1)) |-> ExecutedIn(n - 1)[j].call]
              = resps[n].resp.ToolCalls
        /\ err = Nil
        /\ result = IF resps[n].resp.Content = Empty THEN MaxIterationsText
                    ELSE resps[n].resp.Content

\* C8 witness: the budget of 2 iterations ends on a response with empty
\* content and two tool calls.
C8_Witness ==
    /\ pc = "done"
    /\ cfgMaxIterations = 2
    /\ Len(resps) = 2
    /\ HasCalls(2)
    /\ resps[2].resp.Content = Empty
    /\ Len(resps[2].resp.ToolCalls) = 2
    /\ result = MaxIterationsText

\* What C5 asks of a step in which an Execute returns an error.
C5_FailedToolStep ==
    (Len(executed') = Len(executed) + 1 /\ executed'[Len(executed')].err # Nil)
    => LET e == executed'[Len(executed')]
           msg == Message("tool", ErrorResult(e.err), <<>>, e.call.ID)
           h == GetHistory(sessions, SessionKey)
           h2 == GetHistory(sessions', SessionKey)
           n == Len(resp.ToolCalls)
       IN /\ e.call = resp.ToolCalls[tcIdx]
          /\ messages' = Append(messages, msg)
          /\ Len(h2) >= Len(h) + 1
          /\ SubSeq(h2, 1, Len(h) + 1) = Append(h, msg)
          /\ pc' # "failed"
          /\ err' = Nil
          /\ IF e.idx < n
             THEN /\ pc' = "proc"
                  /\ tcIdx' = e.idx + 1
                  /\ inflight' = {ExecOp(i, e.idx + 1)}
                  /\ calls' = calls
                  /\ h2 = Append(h, msg)
             ELSE IF e.iter + 1 < cfgMaxIterations
             THEN /\ pc' = "chat"
                  /\ calls' = Append(calls, ChatRequest(messages'))
                  /\ h2 = Append(h, msg)
             ELSE /\ pc' = "done"
                  /\ calls' = calls

C10_OneAtATimeInOrder ==
    /\ Cardinality(inflight) <= 1
    /\ pc = "chat" => inflight = {ChatOp(i)}
    /\ pc = "proc" =>
           /\ inflight = {ExecOp(i, tcIdx)}
           /\ Len(ExecutedIn(i)) = tcIdx - 1
    /\ ~Running => inflight = {}
    /\ \A n \in 1..Len(executed) :
           LET b == executed[n] IN
           /\ b.iter + 1 <= Len(resps)
           /\ HasCalls(b.iter + 1)
           /\ b.idx \in 1..Len(resps[b.iter + 1].resp.ToolCalls)
           /\ b.call = resps[b.iter + 1].resp.ToolCalls[b.idx]
           /\ IF n = 1 THEN b.iter = 0 /\ b.idx = 1
              ELSE LET a == executed[n - 1] IN
                   \/ b.iter = a.iter /\ b.idx = a.idx + 1
                   \/ /\ b.iter = a.iter + 1
                      /\ b.idx = 1
                      /\ a.idx = Len(resps[a.iter + 1].resp.ToolCalls)

\* C10 witness: the second tool call of a response is in flight, the first
\* has returned.
C10_Witness ==
    /\ pc = "proc"
    /\ tcIdx = 2
    /\ inflight = {ExecOp(i, 2)}
    /\ Len(ExecutedIn(i)) = 1

\* A tool message of msgs at j is correlated when the nearest assistant
\* message before it carries exactly one tool call with its tool_call_id.
Correlated(msgs, j) ==
    \E a \in 1..(j - 1) :
        /\ msgs[a].Role = "assistant"
        /\ \A b \in (a + 1)..(j - 1) : msgs[b].Role # "assistant"
        /\ Cardinality({c \in 1..Len(msgs[a].ToolCalls) :
                            msgs[a].ToolCalls[c].ID = msgs[j].ToolCallID}) = 1

Contains(h, sub) ==
    \E o \in 0..(Len(h) - Len(sub)) : SubSeq(h, o + 1, o + Len(sub)) = sub

\* C9: after a crash during Run, the session store reloaded from disk holds
\* every message of the iterations Run had completed.
C9_CompletedIterationsSurviveCrash ==
    crashed => Contains(GetHistory(sessions, SessionKey), iterDone)

-----------------------------------------------------------------------------
(* Cancellation, capture and the transcript of a Run *)

\* C11: once the caller has cancelled ctx while Run waited, Run makes no
\* further provider call and passes no further tool call to Execute.
C11_CancelStopsRun ==
    cancel.on => (Len(calls) = cancel.calls /\ ExecsBegun = cancel.execs)

\* The messages Run was started with: what BuildMessages returned.
StartMessages == IF Len(calls) >= 1 THEN calls[1].Messages ELSE messages

\* The session history and the user message Run was started with.
HistoryAtStart == SubSeq(StartMessages, 2, Len(StartMessages) - 1)
UserMessageAtStart == StartMessages[Len(StartMessages)]

\* The tool message of a returned Execute call.
ToolMessageOf(e) ==
    Message("tool", IF e.err # Nil THEN ErrorResult(e.err) ELSE e.out, <<>>,
            e.call.ID)

\* The assistant message of the k-th response and the tool messages of the
\* Execute calls of its iteration.
ToolTurn(k) ==
    <<Message("assistant", resps[k].resp.Content, resps[k].resp.ToolCalls, "")>>
    \o [j \in 1..Len(ExecutedIn(k - 1)) |-> ToolMessageOf(ExecutedIn(k - 1)[j])]

RECURSIVE ToolTurns(_)
ToolTurns(k) ==
    IF k = 0 THEN <<>>
    ELSE ToolTurns(k - 1) \o (IF HasCalls(k) THEN ToolTurn(k) ELSE <<>>)

\* The text a Run returns with a nil error, as the provider's answers and
\* MaxIterations decide it.
TextOfResponses ==
    LET n == Len(resps) IN
    IF n = 0 THEN FallbackText
    ELSE IF HasCalls(n)
    THEN (IF resps[n].resp.Content = Empty THEN MaxIterationsText
          ELSE resps[n].resp.Content)
    ELSE (IF resps[n].resp.Content = Empty THEN FallbackText
          ELSE resps[n].resp.Content)

\* C12: the text, the error and the transcript of a Run that has returned
\* are those the provider's answers and the tool results decide, the same
\* under every configuration and outcome of the capture.
C12_CaptureNeverInfluences ==
    LET h == GetHistory(sessions, SessionKey)
        grown == <<Message("user", UserMessageAtStart.Content, <<>>, "")>>
                     \o ToolTurns(Len(resps))
    IN /\ pc = "done" =>
              /\ err = Nil
              /\ result = TextOfResponses
              /\ \A k \in 1..Len(resps) : RespOK(k)
              /\ h = Append(grown, Message("assistant", TextOfResponses, <<>>, ""))
       /\ pc = "failed" =>
              /\ result = Empty
              /\ err = RunError(Len(resps) - 1, resps[Len(resps)].err)
              /\ h = grown

\* C12 witness: a Run returned after two provider calls and a tool call,
\* both capture processes having failed.
C12_Witness ==
    /\ pc = "done"
    /\ capture = "fails"
    /\ Len(resps) = 2
    /\ Len(executed) >= 1
    /\ Len(captured) = 2
    /\ \A c \in 1..2 : captured[c].failed

\* The transcript of a Run that has returned: the user message, then for
\* each response with tool calls its assistant message and its tool
\* messages in call order, then an assistant message carrying the text Run
\* returned.
Transcript ==
    <<Message("user", UserMessageAtStart.Content, <<>>, "")>>
    \o ToolTurns(Len(resps))
    \o <<Message("assistant", result, <<>>, "")>>

\* What C13 asks of a step in which a Run returns a nil error.
C13_ReturnStep ==
    (pc' = "done" /\ (pc # "done" \/ runs' # runs)) =>
        /\ err' = Nil
        /\ GetHistory(sessions', SessionKey) = (HistoryAtStart \o Transcript)'

\* C13: when a Run returns a nil error, the session history is the history
\* that Run was started with, followed by the user message, then for each
\* iteration with tool calls the assistant message and its tool messages in
\* call order, then a final assistant message carrying the text Run returns.
C13_HistoryGrownByTranscript == [][C13_ReturnStep]_vars

\* C13 witness: a Run over a history that is not empty returned after an
\* iteration with two tool calls.
C13_Witness ==
    /\ pc = "done"
    /\ HistoryAtStart # <<>>
    /\ Len(resps) = 2
    /\ Len(resps[1].resp.ToolCalls) = 2
    /\ Len(executed) = 2

-----------------------------------------------------------------------------
(* Properties of Registry.Execute and buildCommandArgs *)

\* The Execute calls made so far, the one in progress included.
ExecRecords ==
    execLog \o (IF execPc = "running"
                THEN <<[argv |-> proc.argv, stdin |-> proc.stdin,
                        started |-> TRUE, outcome |-> "running",
                        err |-> Nil]>>
                ELSE <<>>)

\* The subprocesses started so far.
Started == {k \in 1..Len(ExecRecords) : ExecRecords[k].started}

\* The decoded arguments and the command name of the tool call.
CallArgs == UnmarshalArgs(toolCall.Arguments).args
CallCmdName == SplitN2(toolCall.Name)[2]

\* The name of the tool call has a '.', the part before its first '.' is
\* a registered tool and the rest is a command of that tool.
Resolves(tc) ==
    /\ Contains1(tc.Name, ".")
    /\ LET k == CHOOSE k \in DOMAIN tc.Name :
                    tc.Name[k] = "." /\ \A j \in 1..(k - 1) : tc.Name[j] # "."
           tool == SubSeq(tc.Name, 1, k - 1)
           cmd == SubSeq(tc.Name, k + 1, Len(tc.Name))
       IN /\ tool \in DOMAIN RegistryTools
          /\ cmd \in DOMAIN RegistryTools[tool].Commands

\* An Execute call that returned a local error and started no subprocess.
LocalError(e) == ~e.started /\ e.err # Nil /\ e.argv = <<>>

RECURSIVE Substituted(_, _)
Substituted(t, args) ==
    IF t = <<>> THEN <<>>
    ELSE IF Len(t) >= 3 /\ t[1] = "{" /\ t[3] = "}"
                        /\ t[2] \notin {"{", "}", " "}
    THEN (IF <<t[2]>> \in DOMAIN args THEN Sprintv(args[<<t[2]>>])
          ELSE <<"{absent", t[2], "}">>)
         \o Substituted(SubSeq(t, 4, Len(t)), args)
    ELSE <<Head(t)>> \o Substituted(Tail(t), args)

\* C16: in template mode the argument vector is the command name followed
\* by the white-space-split tokens of the template with every placeholder
\* of a supplied argument replaced by its text, without the tokens that
\* still hold a placeholder of an absent parameter, and only those.
C16_TemplateTokens ==
    \A k \in Started :
        cmdDef.Args # Empty =>
            ExecRecords[k].argv
                = <<CallCmdName>>
                    \o SelectSeq(Fields(Substituted(cmdDef.Args, CallArgs)),
                                 LAMBDA part : ~Contains1(part, "{absent"))

\* The arguments passed as flags: all but the designated stdin parameter.
FlagKeys ==
    {key \in DOMAIN CallArgs :
        ~(cmdDef.Stdin
          /\ key = (IF cmdDef.StdinParam = Empty THEN <<"content">>
                    ELSE cmdDef.StdinParam))}

\* C17: in flag mode the argument vector is the command name followed by
\* one adjacent pair "--key", value for each argument that is not the
\* designated stdin parameter, in some order, and nothing else.
C17_FlagModePairs ==
    \A k \in Started :
        cmdDef.Args = Empty =>
            LET argv == ExecRecords[k].argv IN
            /\ argv[1] = CallCmdName
            /\ Len(argv) = 1 + 2 * Cardinality(FlagKeys)
            /\ \A key \in FlagKeys :
                   \E j \in 1..Cardinality(FlagKeys) :
                       /\ argv[2 * j] = <<"--">> \o key
                       /\ argv[2 * j + 1] = Sprintv(CallArgs[key])

\* C17 witness: a flag-mode command that reads "content" from stdin was
\* started with arguments text and content.
C17_Witness ==
    /\ cmdDef = [Args |-> Empty, Stdin |-> TRUE, StdinParam |-> Empty]
    /\ DOMAIN CallArgs = {<<"text">>, <<"content">>}
    /\ Len(execLog) = 1
    /\ execLog[1].argv = <<<<"run">>, <<"--", "text">>, <<"a", " ", "b">>>>

\* The arguments without the argument named key.
Without(args, key) == [k \in DOMAIN args \ {key} |-> args[k]]

\* C18: when the command designates a stdin parameter and the argument is
\* supplied, its value is the subprocess's standard input and the argument
\* vector is the one built from the other arguments alone.
C18_StdinNotOnArgv ==
    LET sp == IF cmdDef.StdinParam = Empty THEN <<"content">>
              ELSE cmdDef.StdinParam
    IN \A k \in Started :
           (cmdDef.Stdin /\ sp \in DOMAIN CallArgs) =>
               /\ ExecRecords[k].stdin
                      = [piped |-> TRUE, text |-> Sprintv(CallArgs[sp])]
               /\ \E order \in MapOrders(Without(CallArgs, sp)) :
                      ExecRecords[k].argv
                          = buildCommandArgs(cmdDef, Without(CallArgs, sp),
                                             CallCmdName, order)

\* C19: two Execute calls with the same tool call build the same argument
\* vector and the same standard input, and echo prints the same both times.
C19_ExecuteRepeatable ==
    \A a, b \in Started :
        /\ ExecRecords[a].argv = ExecRecords[b].argv
        /\ ExecRecords[a].stdin = ExecRecords[b].stdin
        /\ (ExecRecords[a].outcome = "ok" /\ ExecRecords[b].outcome = "ok")
               => ExecRecords[a].out = ExecRecords[b].out

\* The timeout budget of a tool call, in seconds.
Budget == IF registry.configured = 0 THEN 30 ELSE registry.configured

\* C20: each subprocess has the whole budget from the start of its own
\* Execute, whatever the calls before it took; it never runs past the
\* budget, and one that is still running when the budget ends is killed
\* and its Execute returns an error.
C20_OwnTimeoutBudget ==
    /\ execPc = "running" =>
           /\ proc.deadline = proc.start + Budget
           /\ proc.start <= now /\ now <= proc.deadline
           /\ execLog # <<>> => proc.start >= execLog[Len(execLog)].end
    /\ \A k \in 1..Len(execLog) :
           LET e == execLog[k] IN
           e.started =>
               /\ e.deadline = e.start + Budget
               /\ e.start <= e.end /\ e.end <= e.deadline
               /\ e.outcome = "timeout" => (e.end = e.deadline /\ e.err # Nil)
               /\ k > 1 => e.start >= execLog[k - 1].end

\* C20 witness: on a registry configured with timeout 0, two calls in a row
\* each ran for 30 seconds and were killed.
C20_Witness ==
    /\ registry.configured = 0
    /\ Len(execLog) = 2
    /\ \A k \in 1..2 : execLog[k].outcome = "timeout"
    /\ execLog[1].end = 30
    /\ execLog[2].end = 60

-----------------------------------------------------------------------------
(* Properties of the provider adapters *)

\* C14: for both adapters and any request, every Chat call made on an
\* adapter whose credential is empty has returned an error and no response,
\* and has performed no HTTP request.
C14_EmptyCredentialNoNetwork ==
    \A k \in 1..Len(chatLog) :
        adapters[chatLog[k].variant].apiKey = Empty
        => /\ chatLog[k].err # Nil
           /\ chatLog[k].resp = NoResponse
           /\ chatLog[k].sent = <<>>
           /\ \A j \in 1..Len(wire) : wire[j].variant # chatLog[k].variant

\* C14 happens: Chat has returned on an Anthropic and on an OpenAI adapter
\* without a credential, with a request that has messages.
C14_Witness ==
    /\ chatReq.Messages # <<>>
    /\ \A v \in Variants :
           /\ adapters[v].apiKey = Empty
           /\ \E k \in 1..Len(chatLog) : chatLog[k].variant = v

\* The Anthropic requests performed so far.
AnthropicSent == {j \in 1..Len(wire) : wire[j].variant = "anthropic"}

\* The indexes of the messages of msgs that are not system messages, in
\* order.
TurnIndexes(msgs) ==
    SelectSeq([k \in 1..Len(msgs) |-> k],
              LAMBDA k : msgs[k].Role \in {"user", "assistant", "tool"})

\* Whether turn t is the turn of message m: its role, and its text or the
\* identifiers its blocks refer to.
TurnOf(t, m) ==
    /\ t.Role = IF m.Role = "tool" THEN "user" ELSE m.Role
    /\ IF t.Content.isText THEN t.Content.text = m.Content
       ELSE IF m.Role = "tool"
       THEN \E b \in 1..Len(t.Content.blocks) :
                /\ t.Content.blocks[b].ToolUseID = m.ToolCallID
                /\ t.Content.blocks[b].Content = m.Content
       ELSE SelectSeq([b \in 1..Len(t.Content.blocks) |->
                          t.Content.blocks[b].ID], LAMBDA id : id # "")
            = [c \in 1..Len(m.ToolCalls) |-> m.ToolCalls[c].ID]

\* The content of the last system message of msgs; empty if there is none.
LastSystem(msgs) ==
    IF \E k \in 1..Len(msgs) : msgs[k].Role = "system"
    THEN msgs[CHOOSE k \in 1..Len(msgs) :
                  /\ msgs[k].Role = "system"
                  /\ \A l \in (k + 1)..Len(msgs) : msgs[l].Role # "system"].Content
    ELSE Empty

\* C21: in every request the Anthropic adapter sends, no turn has the role
\* system, the system field is the content of the last system message of
\* the ChatRequest (empty if it has none), and the turns are the turns of
\* the other messages, one each, in the order of the messages.
C21_SystemExtracted ==
    \A j \in AnthropicSent :
        LET turns == wire[j].body.Messages
            idx == TurnIndexes(chatReq.Messages)
        IN /\ \A t \in 1..Len(turns) : turns[t].Role # "system"
           /\ wire[j].body.System = LastSystem(chatReq.Messages)
           /\ Len(turns) = Len(idx)
           /\ \A t \in 1..Len(turns) : TurnOf(turns[t], chatReq.Messages[idx[t]])

\* C21 happens: the Anthropic adapter has sent a request with two different
\* system messages and a message between them.
C21_Witness ==
    /\ AnthropicSent # {}
    /\ \E a, b, c \in 1..Len(chatReq.Messages) :
           /\ a < b /\ b < c
           /\ chatReq.Messages[a].Role = "system"
           /\ chatReq.Messages[b].Role # "system"
           /\ chatReq.Messages[c].Role = "system"
           /\ chatReq.Messages[a].Content # chatReq.Messages[c].Content

\* Whether arguments text a is valid JSON: an object or a scalar.
IsValidJSON(a) == IsJSONObject(a) \/ (Len(a) = 1 /\ IsValueTok(a[1]))

\* Whether block b is the tool_use block of tool call tc.
ToolUseOf(b, tc) ==
    /\ b.Type = "tool_use"
    /\ b.ID = tc.ID
    /\ b.Name = tc.Name
    /\ IF ~IsValidJSON(tc.Arguments) THEN b.Input = NilValue
       ELSE IF IsJSONObject(tc.Arguments)
       THEN /\ b.Input.type = "map"
            /\ b.Input.members = UnmarshalArgs(tc.Arguments).args
       ELSE /\ b.Input.type = JSONValue(tc.Arguments[1]).type
            /\ b.Input.text = JSONValue(tc.Arguments[1]).text

\* C22: in every request the Anthropic adapter sends, the turn of an
\* assistant message with N >= 1 tool calls is one assistant turn whose
\* blocks are a text block with the content, present iff the content is not
\* empty, then N tool_use blocks in call order with the call's id, name and
\* parsed arguments, the input being null when the arguments are not valid
\* JSON; the turn of a tool message is one user turn with one tool_result
\* block whose tool_use_id is the message's tool_call_id.
C22_BlocksOfToolTurns ==
    \A j \in AnthropicSent :
        LET turns == wire[j].body.Messages
            idx == TurnIndexes(chatReq.Messages)
        IN /\ Len(turns) = Len(idx)
           /\ \A t \in 1..Len(idx) :
                  LET msg == chatReq.Messages[idx[t]]
                      blocks == turns[t].Content.blocks
                      n == Len(msg.ToolCalls)
                      off == IF msg.Content = Empty THEN 0 ELSE 1
                  IN /\ (msg.Role = "assistant" /\ n >= 1)
                        => /\ turns[t].Role = "assistant"
                           /\ ~turns[t].Content.isText
                           /\ Len(blocks) = off + n
                           /\ (off = 1) => /\ blocks[1].Type = "text"
                                           /\ blocks[1].Text = msg.Content
                           /\ \A c \in 1..n :
                                  ToolUseOf(blocks[off + c], msg.ToolCalls[c])
                     /\ (msg.Role = "tool")
                        => /\ turns[t].Role = "user"
                           /\ ~turns[t].Content.isText
                           /\ Len(blocks) = 1
                           /\ blocks[1].Type = "tool_result"
                           /\ blocks[1].ToolUseID = msg.ToolCallID

\* C22 happens: the Anthropic adapter has sent a request with an assistant
\* message of two tool calls, one with arguments that are not valid JSON,
\* and with a tool message.
C22_Witness ==
    /\ AnthropicSent # {}
    /\ \E k, l \in 1..Len(chatReq.Messages) :
           /\ chatReq.Messages[k].Role = "assistant"
           /\ Len(chatReq.Messages[k].ToolCalls) = 2
           /\ \E c \in 1..2 :
                  ~IsValidJSON(chatReq.Messages[k].ToolCalls[c].Arguments)
           /\ chatReq.Messages[l].Role = "tool"

\* The Chat calls that returned a response the Anthropic adapter parsed.
AnthropicParsed ==
    {k \in 1..Len(chatLog) :
        /\ chatLog[k].variant = "anthropic"
        /\ chatLog[k].err = Nil
        /\ chatLog[k].recv # <<>>}

\* The blocks of type ty among blocks, in order.
BlocksOfType(blocks, ty) == SelectSeq(blocks, LAMBDA b : b.Type = ty)

\* The texts of a sequence of text blocks, one after the other.
RECURSIVE TextsJoined(_)
TextsJoined(blocks) ==
    IF blocks = <<>> THEN Empty
    ELSE TextsJoined(SubSeq(blocks, 1, Len(blocks) - 1))
         \o blocks[Len(blocks)].Text

\* C23: the response the Anthropic adapter returns has as content the texts
\* of the text blocks in order, and one tool call per tool_use block in
\* order, with the block's id and name and with an arguments text that the
\* request conversion parses back into the block's input.
C23_ParseAndRoundTrip ==
    \A k \in AnthropicParsed :
        LET blocks == chatLog[k].recv[1].content
            uses == BlocksOfType(blocks, "tool_use")
            tcs == chatLog[k].resp.ToolCalls
        IN /\ chatLog[k].resp.Content
                 = TextsJoined(BlocksOfType(blocks, "text"))
           /\ Len(tcs) = Len(uses)
           /\ \A c \in 1..Len(uses) :
                  /\ tcs[c].ID = uses[c].ID
                  /\ tcs[c].Name = uses[c].Name
                  /\ ToolUseBlocks(<<tcs[c]>>)[1].Input = uses[c].Input

\* C23 happens: the Anthropic adapter has parsed a response with two text
\* blocks around a tool_use block whose input is a map with a member, and
\* one with a tool_use block whose input has two members.
C23_Witness ==
    /\ \E k \in AnthropicParsed :
           \E a, b, c \in 1..Len(chatLog[k].recv[1].content) :
               LET blocks == chatLog[k].recv[1].content IN
               /\ a < b /\ b < c
               /\ blocks[a].Type = "text"
               /\ blocks[b].Type = "tool_use"
               /\ blocks[b].Input.type = "map"
               /\ DOMAIN blocks[b].Input.members # {}
               /\ blocks[c].Type = "text"
    /\ \E k \in AnthropicParsed :
           \E b \in 1..Len(chatLog[k].recv[1].content) :
               /\ chatLog[k].recv[1].content[b].Type = "tool_use"
               /\ Cardinality(DOMAIN chatLog[k].recv[1].content[b].Input.members) = 2

\* The OpenAI requests performed so far.
OpenAISent == {j \in 1..Len(wire) : wire[j].variant = "openai"}

Roles == {"system", "user", "assistant", "tool"}

\* C24: in every request the OpenAI adapter sends for a ChatRequest whose
\* messages all have one of the four roles, the wire messages are as many as
\* the messages and have the same roles in the same order; the tool calls
\* of an assistant message become, in order, entries with the call's id, the
\* type function, the call's name and its arguments text unchanged; a tool
\* message keeps its tool_call_id and its content.
C24_FlatMessages ==
    \A j \in OpenAISent :
        LET msgs == chatReq.Messages
            out == wire[j].body.Messages
        IN (\A k \in 1..Len(msgs) : msgs[k].Role \in Roles)
           => /\ Len(out) = Len(msgs)
              /\ \A k \in 1..Len(msgs) :
                     /\ out[k].Role = msgs[k].Role
                     /\ (msgs[k].Role = "assistant")
                        => /\ Len(out[k].ToolCalls) = Len(msgs[k].ToolCalls)
                           /\ \A c \in 1..Len(msgs[k].ToolCalls) :
                                  /\ out[k].ToolCalls[c].ID = msgs[k].ToolCalls[c].ID
                                  /\ out[k].ToolCalls[c].Type = "function"
                                  /\ out[k].ToolCalls[c].Function.Name
                                         = msgs[k].ToolCalls[c].Name
                                  /\ out[k].ToolCalls[c].Function.Arguments
                                         = msgs[k].ToolCalls[c].Arguments
                     /\ (msgs[k].Role = "tool")
                        => /\ out[k].ToolCallID = msgs[k].ToolCallID
                           /\ out[k].Content = msgs[k].Content

\* C24 happens: the OpenAI adapter has sent a request whose messages have
\* the four roles only, among them an assistant message with two tool calls,
\* one with arguments that are not valid JSON, and a tool message.
C24_Witness ==
    /\ OpenAISent # {}
    /\ \A k \in 1..Len(chatReq.Messages) : chatReq.Messages[k].Role \in Roles
    /\ \E k, l \in 1..Len(chatReq.Messages) :
           /\ chatReq.Messages[k].Role = "assistant"
           /\ Len(chatReq.Messages[k].ToolCalls) = 2
           /\ ~IsValidJSON(chatReq.Messages[k].ToolCalls[2].Arguments)
           /\ chatReq.Messages[l].Role = "tool"
           /\ chatReq.Messages[l].ToolCallID # ""

\* The Chat calls of the OpenAI adapter that got a response with status
\* 200 and a body that decodes and has no error object.
OpenAISuccessful ==
    {k \in 1..Len(chatLog) :
        /\ chatLog[k].variant = "openai"
        /\ chatLog[k].recv # <<>>
        /\ ~chatLog[k].recv[1].failed
        /\ chatLog[k].recv[1].status = StatusOK
        /\ chatLog[k].recv[1].valid
        /\ chatLog[k].recv[1].error = Nil}

\* C25: for a successful response the OpenAI adapter returns a nil error,
\* with an empty content and no tool calls when the choices list is empty,
\* and otherwise with the content and the tool calls of the first choice.
C25_FirstChoiceOnly ==
    \A k \in OpenAISuccessful :
        LET choices == chatLog[k].recv[1].choices
            r == chatLog[k].resp
        IN /\ chatLog[k].err = Nil
           /\ IF Len(choices) = 0
              THEN r.Content = Empty /\ r.ToolCalls = <<>>
              ELSE /\ r.Content = choices[1].Content
                   /\ Len(r.ToolCalls) = Len(choices[1].ToolCalls)
                   /\ \A c \in 1..Len(r.ToolCalls) :
                          /\ r.ToolCalls[c].ID = choices[1].ToolCalls[c].ID
                          /\ r.ToolCalls[c].Name
                                 = choices[1].ToolCalls[c].Function.Name
                          /\ r.ToolCalls[c].Arguments
                                 = choices[1].ToolCalls[c].Function.Arguments

\* C25 happens: the OpenAI adapter has parsed a successful response with no
\* choice, and one with two choices that differ, the first with a tool call.
C25_Witness ==
    /\ \E k \in OpenAISuccessful : chatLog[k].recv[1].choices = <<>>
    /\ \E k \in OpenAISuccessful :
           LET choices == chatLog[k].recv[1].choices IN
           /\ Len(choices) = 2
           /\ choices[1] # choices[2]
           /\ choices[1].ToolCalls # <<>>

\* What Chat, Execute and ToToolDefs share with their callers: the request,
\* the adapters' configuration and the registry's manifests.
SharedState == <<chatReq, adapters, registry, cmdDef>>

\* C26: no step of Chat on either adapter, of Execute or of ToToolDefs, on
\* a success or an error path, changes the ChatRequest, the configuration of
\* an adapter or the manifests of the registry.
C26_ReadOnly == [][SharedState' = SharedState]_vars

\* C26 happens: Chat has returned an error and a response, Execute has
\* returned a local error and the output of a subprocess, and ToToolDefs has
\* returned the definitions.
C26_Witness ==
    /\ \E k \in 1..Len(chatLog) : chatLog[k].err # Nil
    /\ \E k \in 1..Len(chatLog) : chatLog[k].err = Nil /\ chatLog[k].recv # <<>>
    /\ \E k \in 1..Len(execLog) : execLog[k].started
    /\ toolDefs # {}
    /\ chatReq.Messages # <<>>

-----------------------------------------------------------------------------
(* Properties of the session Manager *)

\* C27: a step in which the caller assigns to a message it got from
\* GetHistory changes neither what GetHistory returns for the key nor what
\* Save writes for it.
C27_GetHistoryIsCopy ==
    [][(hist.got /\ hist'.got /\ hist'.writes = hist.writes + 1)
       => /\ GetHistory(sessions', hist.key) = GetHistory(sessions, hist.key)
          /\ Save(sessions', disk, hist.key) = Save(sessions, disk, hist.key)]_vars

\* The step in which a Save of saver p returns nil after the rename.
SaveReturnsNil(p) == savers[p].pc = "rename" /\ savers'[p].ret = "nil"

\* C28: when a Save of key returns nil, a new Manager over the directory
\* returns for key the messages and the summary the saving Manager held
\* when Save took its copy.
C28_SaveReloadRoundTrip ==
    [][\A p \in Savers :
          SaveReturnsNil(p)
          => \E s \in held :
                 /\ s.Key = savers[p].key
                 /\ MarshalSession(s) = savers[p].data
                 /\ GetHistory(loadAll(disk'), s.Key) = s.Messages
                 /\ GetSummary(loadAll(disk'), s.Key) = s.Summary]_vars

\* The session files at their final paths.
FinalFiles == {f \in DOMAIN disk : f # <<>> /\ f[Len(f)] = ".json"}

\* C29: at every step, and after a crash at any step of a Save, every
\* session file at its final path is the complete serialization of a
\* session a Manager held at an earlier moment.
C29_NoPartialFile ==
    \A f \in FinalFiles :
        \E s \in held : disk[f] = MarshalSession(s) /\ f = FinalPath(s.Key)

\* C29 happens: a Save was interrupted by a crash after part of its data
\* was written, while an earlier Save's file is at the final path and the
\* session has grown since.
C29_Witness ==
    /\ \E f \in DOMAIN disk : DOMAIN disk[f] = {"torn"}
    /\ FinalFiles # {}
    /\ \A p \in Savers : savers[p].pc = "idle"
    /\ \E f \in FinalFiles : \A k \in DOMAIN sessions :
           disk[f] # MarshalSession(sessions[k])
    /\ storeOps = MaxStoreOps

\* C30: a step of AddMessage, SetSummary or Save on one key changes for no
\* other key what GetHistory and GetSummary return, nor what a new Manager
\* over the directory returns for it.
C30_KeysDoNotInterfere ==
    [][\A k \in StoreKeys :
          (lastKey' \in StoreKeys /\ k # lastKey')
          => /\ GetHistory(sessions', k) = GetHistory(sessions, k)
             /\ GetSummary(sessions', k) = GetSummary(sessions, k)
             /\ GetHistory(loadAll(disk'), k) = GetHistory(loadAll(disk), k)
             /\ GetSummary(loadAll(disk'), k) = GetSummary(loadAll(disk), k)]_vars

\* The fields of the expressions passed to ParseCron: stars, steps, values,
\* ranges and lists, and fields that ParseCron rejects.
MinuteFields ==
    {<<"*">>, <<"*", "/", "15">>, <<"5", "-", "10", "/", "2">>,
     <<"0", ",", "30">>, <<"60">>, <<"*", "/", "0">>}
HourFields == {<<"*">>, <<"8", "-", "17">>}
DayOfMonthFields == {<<"*">>, <<"1">>, <<"0">>}
MonthFields == {<<"*">>, <<"1", "-", "6", "/", "2">>}
DayOfWeekFields ==
    {<<"*">>, <<"0">>, <<"7">>, <<"1", "-", "5">>, <<"5", "-", "7">>,
     <<"8">>}

CronExprs ==
    {Join(<<m, h, d, mo, w>>, <<" ">>) :
        m \in MinuteFields, h \in HourFields, d \in DayOfMonthFields,
        mo \in MonthFields, w \in DayOfWeekFields}
    \cup {<<"*", " ", "*", " ", "*", " ", "*">>}

CronTimes ==
    {Time(m, h, d, mo, w) :
        m \in {0, 7, 30}, h \in {0, 10}, d \in {1, 31}, mo \in {1, 2},
        w \in {0, 1, 5}}

\* ParseCron called with one expression, and Matches with one time.
InitCron ==
    /\ NoRun /\ NoExecute /\ NoChat /\ NoManifests /\ NoScheduler
    /\ cronExpr \in CronExprs
    /\ cronAt \in CronTimes
    /\ cronOut = <<>>

NextCron == MatchesCalled

SpecCron == InitCron /\ [][NextCron]_vars

\* The names of the tools and of the commands of the manifests: plain
\* names and names with a dot.
ToolNames == {<<"a">>, <<"a", ".", "b">>, <<"e">>}
CommandNames == {<<"c">>, <<"b", ".", "c">>}

Manifests == {ToolManifest(t, cmds) : t \in ToolNames, cmds \in SUBSET CommandNames}

\* A registry filled by Register, then ToToolDefs, then Execute calls with
\* advertised names.
InitRegistry ==
    NoRun /\ NoExecute /\ NoChat /\ NoManifests /\ NoCron /\ NoScheduler

NextRegistry ==
    \/ \E m \in Manifests : Register(m)
    \/ ToToolDefsAdvertised
    \/ \E t \in ToolNames, c \in CommandNames : ExecuteAdvertised(<<t, c>>)

SpecRegistry == InitRegistry /\ [][NextRegistry]_vars

\* The schedules of the jobs: intervals, cron expressions, and a text that
\* is neither.
Schedules ==
    {<<"@every ", "30s">>, <<"@every ", "1m">>,
     <<"*", " ", "*", " ", "*", " ", "*", " ", "*">>,
     <<"1", " ", "*", " ", "*", " ", "*", " ", "*">>,
     <<"hourly">>}

Job(name, schedule, enabled) ==
    [Name |-> name, Schedule |-> schedule, Prompt |-> <<"do stuff">>,
     Session |-> <<"cron:">> \o name, Enabled |-> enabled]

\* The job lists of the schedulers: one job, or an enabled job after one
\* that may be disabled.
JobLists ==
    {<<Job(<<"a">>, sch, en)>> : sch \in Schedules, en \in BOOLEAN}
    \cup {<<Job(<<"a">>, s1, en), Job(<<"b">>, s2, TRUE)>> :
             s1 \in Schedules, s2 \in {<<"@every ", "30s">>}, en \in BOOLEAN}

\* A scheduler with one job, started and stopped, while time passes and
\* the runs of the job return.
InitScheduler ==
    /\ NoRun /\ NoExecute /\ NoChat /\ NoManifests /\ NoCron
    /\ \E js \in {l \in JobLists : Len(l) = 1} : NewScheduler(js)

NextScheduler ==
    \/ Start
    \/ Stop
    \/ CancelStartCtx
    \/ \E l \in 1..MaxStarts : LoopChecks(l)
    \/ \E l \in 1..MaxStarts : LoopExits(l)
    \/ \E f \in DOMAIN firings : RunFnReturns(f)
    \/ TimePasses

SpecScheduler == InitScheduler /\ [][NextScheduler]_vars

\* A scheduler whose first job is disabled, with runs that outlast the
\* behaviour: what runFn does has no effect on the scheduler.
InitDisabled ==
    /\ NoRun /\ NoExecute /\ NoChat /\ NoManifests /\ NoCron
    /\ \E js \in {l \in JobLists : ~l[1].Enabled} : NewScheduler(js)

NextChecks ==
    \/ Start
    \/ Stop
    \/ CancelStartCtx
    \/ \E l \in 1..MaxStarts : LoopChecks(l)
    \/ \E l \in 1..MaxStarts : LoopExits(l)
    \/ TimePasses

SpecDisabled == InitDisabled /\ [][NextChecks]_vars

-----------------------------------------------------------------------------
(* Properties of the message list of a Run *)

\* The step in which Run builds its message list (loop.go:63-70).
RunStarts == runs' = runs + 1

\* C34: the list BuildMessages returns to Run has len(history) + 2
\* messages: a system message first, then the messages of the history
\* unchanged and in order, then a user message with the user's text.
C34_BuildMessagesShape ==
    [][RunStarts =>
          LET history == GetHistory(sessions, SessionKey)
              n == Len(history)
          IN /\ Len(messages') = n + 2
             /\ messages'[1].Role = "system"
             /\ SubSeq(messages', 2, n + 1) = history
             /\ \E u \in UserTexts :
                    /\ messages'[n + 2] = Message("user", u, <<>>, "")
                    /\ GetHistory(sessions', SessionKey)[n + 1]
                           = Message("user", u, <<>>, "")]_vars

\* C34 happens: a Run over a history of two messages has sent its first
\* request, with four messages.
C34_Witness ==
    /\ runs = 1
    /\ Len(calls) >= 1
    /\ Len(calls[1].Messages) = 4
    /\ calls[1].Messages[2].Role = "user"
    /\ calls[1].Messages[3].Role = "assistant"

\* The messages Run adds to its list for the k-th response: the assistant
\* message with the tool calls, then the tool message of each call.
AddedFor(k) ==
    LET r == resps[k].resp
        before == Len(calls[k].Messages)
        after == calls[k + 1].Messages
    IN /\ Len(after) = before + 1 + Len(r.ToolCalls)
       /\ after[before + 1] = Message("assistant", r.Content, r.ToolCalls, "")
       /\ \A c \in 1..Len(r.ToolCalls) :
              /\ after[before + 1 + c].Role = "tool"
              /\ after[before + 1 + c].ToolCallID = r.ToolCalls[c].ID
              /\ after[before + 1 + c].ToolCalls = <<>>

\* C36: the message list of the (k+1)-th request is the list of the k-th
\* request with the assistant message of the k-th response and its tool
\* messages added at the end; no earlier message is changed, removed or
\* moved.
C36_TranscriptAppendOnly ==
    \A k \in 1..(Len(calls) - 1) :
        /\ SubSeq(calls[k + 1].Messages, 1, Len(calls[k].Messages))
               = calls[k].Messages
        /\ AddedFor(k)

\* C36 happens: a Run has sent three requests, after a response with two
\* tool calls and one with one.
C36_Witness ==
    /\ Len(calls) = 3
    /\ Len(resps[1].resp.ToolCalls) = 2
    /\ Len(resps[2].resp.ToolCalls) = 1

\* C38: a Run makes at most MaxIterations provider calls; with
\* MaxIterations <= 0 it makes no provider call, executes no tool and
\* returns a nil error with the fallback text.
C38_CallsBounded ==
    /\ cfgMaxIterations >= 0 => Len(calls) <= cfgMaxIterations
    /\ cfgMaxIterations <= 0 =>
           /\ calls = <<>>
           /\ executed = <<>>
           /\ pc \in {"idle", "done"}
           /\ pc = "done" => (err = Nil /\ result = FallbackText)

\* C38 happens: a Run with a negative MaxIterations has returned.
C38_Witness ==
    /\ cfgMaxIterations < 0
    /\ runs = 1
    /\ pc = "done"
    /\ sessions[SessionKey].Messages # <<>>

\* C39: when Run has failed with a provider error, the session file is what
\* it was before the Run, and the session in memory is the history followed
\* by the user message and by the assistant and tool messages of the
\* iterations completed before the failure, with no final assistant
\* message.
C39_FailedRunState ==
    pc = "failed" =>
        \E u \in UserTexts :
            /\ GetHistory(sessions, SessionKey)
                   = GetHistory(loadAll(disk), SessionKey)
                         \o <<Message("user", u, <<>>, "")>> \o iterDone
            /\ messages[Len(messages) - Len(iterDone)]
                   = Message("user", u, <<>>, "")
            /\ err # Nil

\* C39 happens: over a saved history, the provider fails in the second
\* iteration, after a tool has run.
C39_Witness ==
    /\ pc = "failed"
    /\ Len(resps) = 2
    /\ iterDone # <<>>
    /\ GetHistory(loadAll(disk), SessionKey) # <<>>

-----------------------------------------------------------------------------
(* Properties of the cron expressions *)

\* Whether a part of a field (*, N, N-M, each with an optional /step)
\* selects the value v of a field that ranges from min to max.
PartSelects(part, v, min, max) ==
    LET slash == Index1(part, "/")
        base == IF slash = 0 THEN part ELSE SubSeq(part, 1, slash - 1)
        step == IF slash = 0 THEN 1 ELSE DecimalValue[part[slash + 1]]
        lo == IF base = <<"*">> THEN min ELSE DecimalValue[base[1]]
        hi == IF base = <<"*">> THEN max
              ELSE DecimalValue[base[Len(base)]]
    IN \E n \in 0..max : v = lo + n * step /\ v <= hi

\* Whether a field, a comma-separated list of parts, selects v.
FieldSelects(field, v, min, max) ==
    \E k \in DOMAIN Split1(field, ",") :
        PartSelects(Split1(field, ",")[k], v, min, max)

\* C33: for an expression ParseCron accepts, Matches(t) is true exactly
\* when each of minute, hour, day of month, month and weekday of t is
\* selected by its field, a 7 in the day-of-week field selecting Sunday as
\* a 0 does.
C33_MatchesIffAllSelected ==
    (cronOut # <<>> /\ cronOut[1].ok) =>
        LET f == Fields(cronExpr)
            t == cronAt
        IN cronOut[1].matches <=>
               /\ FieldSelects(f[1], t.Minute, 0, 59)
               /\ FieldSelects(f[2], t.Hour, 0, 23)
               /\ FieldSelects(f[3], t.Day, 1, 31)
               /\ FieldSelects(f[4], t.Month, 1, 12)
               /\ \/ FieldSelects(f[5], t.Weekday, 0, 7)
                  \/ t.Weekday = 0 /\ FieldSelects(f[5], 7, 0, 7)

\* C33 happens: an expression with a stepped range of minutes and a range
\* of weekdays that ends in 7 was parsed and matches a time on a Sunday.
C33_Witness ==
    /\ cronOut # <<>>
    /\ cronOut[1].ok
    /\ cronOut[1].matches
    /\ cronAt.Weekday = 0
    /\ Fields(cronExpr)[5] = <<"5", "-", "7">>
    /\ Fields(cronExpr)[1] = <<"5", "-", "10", "/", "2">>
    /\ cronAt.Minute = 7

-----------------------------------------------------------------------------
(* Properties of the advertised tool names *)

\* C37: ToToolDefs advertises for every registered tool and each of its
\* commands exactly one ToolDef named tool name + "." + command name, and
\* Execute called with an advertised name resolves to the tool and the
\* command the name was advertised for, never to an error.
C37_AdvertisedNamesResolve ==
    /\ advertised # <<>> =>
           \A t \in DOMAIN tools : \A c \in DOMAIN tools[t].Commands :
               Cardinality({p \in DOMAIN advertised[1] :
                               advertised[1][p].Name
                                   = tools[t].Name \o <<".">> \o c}) = 1
    /\ \A k \in 1..Len(lookups) :
           /\ lookups[k].res.err = Nil
           /\ lookups[k].res.tool = lookups[k].pair[1]
           /\ lookups[k].res.cmd = lookups[k].pair[2]

-----------------------------------------------------------------------------
(* Properties of the Scheduler *)

\* The loop of Start number l is running: neither Stop nor the caller of
\* Start has cancelled its ctx.
Active(l) == ~Done(l)

\* C31: Running() is true exactly while the scheduler's loop is running,
\* that is from Start until Stop is called or the ctx passed to Start is
\* cancelled, and false otherwise.
C31_RunningIffActive ==
    SchedulerRunning <=> \E l \in DOMAIN loops : Active(l)

\* C32: the run function is never invoked for a job whose Enabled flag is
\* false, whatever its schedule, however many checks are made and however
\* Start and Stop are called.
C32_DisabledNeverRun ==
    \A f \in DOMAIN firings : jobs[firings[f].job].Enabled

\* C32 happens: a disabled job whose schedule matches every minute was
\* checked by two loops, one started after the other was stopped, until
\* the last tick, while the enabled job after it was run.
C32_Witness ==
    /\ ~jobs[1].Enabled
    /\ jobs[1].Schedule = <<"*", " ", "*", " ", "*", " ", "*", " ", "*">>
    /\ Len(loops) = 2
    /\ loops[1].cancelled
    /\ \A l \in DOMAIN loops : loops[l].pc # "start"
    /\ clock = MaxTicks * TickerPeriod
    /\ loops[2].next > clock
    /\ \E f \in DOMAIN firings : firings[f].job = 2 /\ firings[f].loop = 2

\* Firings f and g are consecutive firings of one job.
Consecutive(f, g) ==
    /\ f < g
    /\ firings[f].job = firings[g].job
    /\ \A h \in (f + 1)..(g - 1) : firings[h].job # firings[f].job

\* C35: any two consecutive firings of a job are at least its interval
\* apart for an "@every" schedule and fall in different calendar minutes
\* for a cron schedule, for any number of checks and any sequence of Start
\* and Stop calls.
C35_NeverFiredTwice ==
    \A f, g \in DOMAIN firings :
        Consecutive(f, g) =>
            LET schedule == jobs[firings[f].job].Schedule
            IN IF parseInterval(schedule).ok
               THEN firings[g].at - firings[f].at
                        >= parseInterval(schedule).interval
               ELSE TruncateMinute(firings[g].at)
                        # TruncateMinute(firings[f].at)

\* C40: no two runs of one job are in flight at the same time: of any two
\* firings of a job the run function of one has returned.
C40_OneRunInFlight ==
    \A f, g \in DOMAIN firings :
        (f # g /\ firings[f].job = firings[g].job) =>
            firings[f].returned \/ firings[g].returned

====
